---------------------------- MODULE Spec2Model ----------------------------
(***************************************************************************)
(* A model of pymitsubishi: the frame checksum, the temperature codec,     *)
(* the state decoders, the command encoders, the aggregator and the        *)
(* AES-CBC envelope of src/pymitsubishi/mitsubishi_parser.py and           *)
(* src/pymitsubishi/mitsubishi_api.py.                                     *)
(*                                                                         *)
(* Bytes are integers 0..255, a bytes object is a sequence of them.  A     *)
(* Python str is a sequence of one-character strings.  Python indexes      *)
(* from 0, TLA+ from 1: data[i] in the source is data[i + 1] here.         *)
(***************************************************************************)
EXTENDS Integers, Sequences, FiniteSets, TLC

VARIABLES
    pc,             \* the operation that ran last ("init" before any)
    payload,        \* calc_fcc: its argument
    fcc,            \* calc_fcc: its return value
    sent,           \* a decoder's frame as the device built it
    received,       \* the frame as it reaches the decoder
    context,        \* EnergyStates.deserialize: its general_states argument
    result,         \* the decoder's outcome: Return(state) or Raise(error)
    celsius,        \* a MitsubishiTemperature, in tenths of a degree
    fine_byte,      \* its segment14_value
    decoded,        \* MitsubishiTemperature.from_segment of that byte
    state_arg,      \* generate_*_command: its general_states argument
    controls_arg,   \* generate_*_command: its controls argument
    command,        \* generate_*_command: Return(hex string) or Raise(error)
    mode_parsed,    \* parse_mode_with_i_see of the mode byte of that command
    code_values,    \* parse_code_values: its argument
    position,       \* parse_code_values: how many values the loop has taken
    parsed,         \* parse_code_values: its parsed_state
    exc,            \* parse_code_values: the exception that left it, "" if none
    key_arg,        \* MitsubishiAPI: the encryption_key argument
    encryption_key, \* MitsubishiAPI: the key the constructor stored
    plain,          \* encrypt_payload: its payload argument, as code points
    iv_arg,         \* encrypt_payload: its iv argument
    enc,            \* the envelope: Return(base64 text) or Raise(error)
    dec,            \* decrypt_payload of that text: Return(str) or Raise(error)
    raw,            \* the padded bytes a peer encrypted into the envelope
    candidate,      \* is_*_states_payload: the byte sequence handed to them
    classes,        \* what each of the four predicates returned for it
    frequency,      \* estimate_power_consumption: its compressor_frequency
    drive,          \* estimate_power_consumption: its mode
    fan,            \* estimate_power_consumption: its fan_speed
    watts           \* estimate_power_consumption: its return value, in tenths

fccVars == <<payload, fcc>>

decodeVars == <<sent, received, context, result>>

tempVars == <<celsius, fine_byte, decoded>>

commandVars == <<state_arg, controls_arg, command, mode_parsed>>

parseVars == <<code_values, position, parsed, exc>>

cryptoVars == <<key_arg, encryption_key, plain, iv_arg, enc, dec, raw>>

classifyVars == <<candidate, classes>>

powerVars == <<frequency, drive, fan, watts>>

vars ==
    <<pc, fccVars, decodeVars, tempVars, commandVars, parseVars, cryptoVars, classifyVars,
      powerVars>>

\* the variables an operation of one component leaves alone
notFccVars ==
    <<decodeVars, tempVars, commandVars, parseVars, cryptoVars, classifyVars, powerVars>>

notDecodeVars ==
    <<fccVars, tempVars, commandVars, parseVars, cryptoVars, classifyVars, powerVars>>

notTempVars ==
    <<fccVars, decodeVars, commandVars, parseVars, cryptoVars, classifyVars, powerVars>>

notCommandVars ==
    <<fccVars, decodeVars, tempVars, parseVars, cryptoVars, classifyVars, powerVars>>

notParseVars ==
    <<fccVars, decodeVars, tempVars, commandVars, cryptoVars, classifyVars, powerVars>>

notCryptoVars ==
    <<fccVars, decodeVars, tempVars, commandVars, parseVars, classifyVars, powerVars>>

notClassifyVars ==
    <<fccVars, decodeVars, tempVars, commandVars, parseVars, cryptoVars, powerVars>>

notPowerVars ==
    <<fccVars, decodeVars, tempVars, commandVars, parseVars, cryptoVars, classifyVars>>

---------------------------------------------------------------------------
(* Python helpers                                                          *)

Byte == 0..255

Min(a, b) == IF a < b THEN a ELSE b

\* s[a:b] of Python for 0 <= a, 0 <= b: clipped to the sequence, never an error
Slice(s, a, b) == SubSeq(s, a + 1, Min(b, Len(s)))

\* sum(bytes)
RECURSIVE sum(_)
sum(s) == IF s = <<>> THEN 0 ELSE Head(s) + sum(Tail(s))

\* a & b of Python for a, b >= 0
RECURSIVE BitAnd(_, _)
BitAnd(a, b) ==
    IF a = 0 \/ b = 0 THEN 0
    ELSE (IF a % 2 = 1 /\ b % 2 = 1 THEN 1 ELSE 0) + 2 * BitAnd(a \div 2, b \div 2)

\* Python's None, and the two ways a call ends
None == [none |-> TRUE]

\* a value held where None may stand instead (Optional[...])
Some(v) == [some |-> v]

Return(v) == [raised |-> "", value |-> v]

Raise(e) == [raised |-> e, value |-> None]

HexDigits == <<"0", "1", "2", "3", "4", "5", "6", "7", "8", "9", "a", "b", "c", "d", "e", "f">>

UpperHexDigits == <<"0", "1", "2", "3", "4", "5", "6", "7", "8", "9", "A", "B", "C", "D", "E", "F">>

\* the digits of n >= 0 in base 16, most significant first, at least one
RECURSIVE HexOfNat(_)
HexOfNat(n) ==
    IF n < 16 THEN <<HexDigits[n + 1]>>
    ELSE HexOfNat(n \div 16) \o <<HexDigits[(n % 16) + 1]>>

\* format(n, "02x") and f"{n:02x}": the sign, then the digits, zero-filled to width 2
Format02x(n) ==
    LET body == IF n < 0 THEN <<"-">> \o HexOfNat(-n) ELSE HexOfNat(n)
    IN  IF Len(body) >= 2 THEN body ELSE <<"0">> \o body

\* bytes.hex(): two lowercase digits per byte
RECURSIVE hex(_)
hex(data) ==
    IF data = <<>> THEN <<>>
    ELSE <<HexDigits[(Head(data) \div 16) + 1], HexDigits[(Head(data) % 16) + 1]>>
         \o hex(Tail(data))

IsHexDigit(c) == \E i \in 1..16 : HexDigits[i] = c \/ UpperHexDigits[i] = c

HexDigitValue(c) == (CHOOSE i \in 1..16 : HexDigits[i] = c \/ UpperHexDigits[i] = c) - 1

\* int(s, 16) for a string of hex digits; -1 stands for the ValueError int()
\* raises on an empty string or on any other character
RECURSIVE HexValue(_)
HexValue(s) ==
    IF s = <<>> THEN 0
    ELSE 16 * HexValue(SubSeq(s, 1, Len(s) - 1)) + HexDigitValue(s[Len(s)])

IntHex(s) ==
    IF s # <<>> /\ \A i \in 1..Len(s) : IsHexDigit(s[i]) THEN HexValue(s) ELSE -1

\* bytes.fromhex(s) for a string without whitespace: Raise("ValueError") on an odd
\* length or a character that is no hex digit
RECURSIVE FromHexPairs(_)
FromHexPairs(s) ==
    IF s = <<>> THEN <<>>
    ELSE <<16 * HexDigitValue(s[1]) + HexDigitValue(s[2])>> \o FromHexPairs(SubSeq(s, 3, Len(s)))

fromhex(s) ==
    IF Len(s) % 2 = 0 /\ \A i \in 1..Len(s) : IsHexDigit(s[i])
    THEN Return(FromHexPairs(s))
    ELSE Raise("ValueError")

---------------------------------------------------------------------------
(* calc_fcc                                                                *)

\* the plain sum of the first 20 bytes, not taken from 0x100
calc_fcc_sum(p) == sum(Slice(p, 0, 20)) % 256

calc_fcc(p) == 256 - (sum(Slice(p, 0, 20)) % 256)

---------------------------------------------------------------------------
(* The enums and their from_segment lookups                                *)

PowerOnOff_value(p) == IF p = "ON" THEN <<"0", "1">> ELSE <<"0", "0">>

PowerOnOff_from_segment(segment) ==
    IF segment \in {<<"0", "1">>, <<"0", "2">>} THEN "ON" ELSE "OFF"

DriveModes == {"AUTO", "HEATER", "DEHUM", "COOLER", "AUTO_COOLER", "AUTO_HEATER", "FAN"}

DriveMode_value(m) ==
    CASE m = "AUTO" -> 0
      [] m = "HEATER" -> 1
      [] m = "DEHUM" -> 2
      [] m = "COOLER" -> 3
      [] m = "AUTO_COOLER" -> 27
      [] m = "AUTO_HEATER" -> 25
      [] m = "FAN" -> 7

\* mode_map.get(segment, DriveMode.FAN), segment an int
DriveMode_from_segment(segment) ==
    CASE segment \in {3, 11} -> "COOLER"
      [] segment \in {1, 9} -> "HEATER"
      [] segment = 8 -> "AUTO"
      [] segment \in {0, 2, 10, 12} -> "DEHUM"
      [] segment = 27 -> "AUTO_COOLER"
      [] segment = 25 -> "AUTO_HEATER"
      [] OTHER -> "FAN"

WindSpeeds == {"AUTO", "LEVEL_1", "LEVEL_2", "LEVEL_3", "LEVEL_FULL"}

WindSpeed_value(w) ==
    CASE w = "AUTO" -> 0
      [] w = "LEVEL_1" -> 1
      [] w = "LEVEL_2" -> 2
      [] w = "LEVEL_3" -> 3
      [] w = "LEVEL_FULL" -> 5

\* speed_map[segment]: a segment that is no key leaves no member, only the error
WindSpeed_from_segment_strict(segment) ==
    CASE segment = <<"0", "0">> -> "AUTO"
      [] segment = <<"0", "1">> -> "LEVEL_1"
      [] segment = <<"0", "2">> -> "LEVEL_2"
      [] segment = <<"0", "3">> -> "LEVEL_3"
      [] segment = <<"0", "5">> -> "LEVEL_FULL"
      [] OTHER -> "KeyError"

\* speed_map.get(segment, WindSpeed.AUTO), segment a str
WindSpeed_from_segment(segment) ==
    CASE segment = <<"0", "0">> -> "AUTO"
      [] segment = <<"0", "1">> -> "LEVEL_1"
      [] segment = <<"0", "2">> -> "LEVEL_2"
      [] segment = <<"0", "3">> -> "LEVEL_3"
      [] segment = <<"0", "5">> -> "LEVEL_FULL"
      [] OTHER -> "AUTO"

VerticalWindDirections == {"AUTO", "V1", "V2", "V3", "V4", "V5", "SWING"}

VerticalWindDirection_value(v) ==
    CASE v = "AUTO" -> 0
      [] v = "V1" -> 1
      [] v = "V2" -> 2
      [] v = "V3" -> 3
      [] v = "V4" -> 4
      [] v = "V5" -> 5
      [] v = "SWING" -> 7

VerticalWindDirection_from_segment(segment) ==
    CASE segment = <<"0", "0">> -> "AUTO"
      [] segment = <<"0", "1">> -> "V1"
      [] segment = <<"0", "2">> -> "V2"
      [] segment = <<"0", "3">> -> "V3"
      [] segment = <<"0", "4">> -> "V4"
      [] segment = <<"0", "5">> -> "V5"
      [] segment = <<"0", "7">> -> "SWING"
      [] OTHER -> "AUTO"

HorizontalWindDirections ==
    {"AUTO", "L", "LS", "C", "RS", "R", "LC", "CR", "LR", "LCR", "LCR_S"}

HorizontalWindDirection_value(h) ==
    CASE h = "AUTO" -> 0
      [] h = "L" -> 1
      [] h = "LS" -> 2
      [] h = "C" -> 3
      [] h = "RS" -> 4
      [] h = "R" -> 5
      [] h = "LC" -> 6
      [] h = "CR" -> 7
      [] h = "LR" -> 8
      [] h = "LCR" -> 9
      [] h = "LCR_S" -> 12

\* the member for the low three bits of the segment only
HorizontalWindDirection_from_low_bits(segment) ==
    LET value == BitAnd(IntHex(segment), 7)
    IN  CHOOSE h \in HorizontalWindDirections : HorizontalWindDirection_value(h) = value

\* HorizontalWindDirection(int(segment, 16) & 0x7F), AUTO on the enum's ValueError
HorizontalWindDirection_from_segment(segment) ==
    LET value == BitAnd(IntHex(segment), 127)
    IN  IF \E h \in HorizontalWindDirections : HorizontalWindDirection_value(h) = value
        THEN CHOOSE h \in HorizontalWindDirections : HorizontalWindDirection_value(h) = value
        ELSE "AUTO"

---------------------------------------------------------------------------
(* MitsubishiTemperature: a float, held here as an integer number of       *)
(* tenths of a degree (22.0 is 220)                                        *)

\* floor(a / b) and the truncation of a / b toward zero, b > 0
FloorDiv(a, b) == a \div b

TruncDiv(a, b) == IF a >= 0 THEN a \div b ELSE -((-a) \div b)

\* a variant: the factor 0.5 forgotten
MitsubishiTemperature_from_segment_whole(segment) == (segment - 128) * 10

\* (segment - 0x80) * 0.5
MitsubishiTemperature_from_segment(segment) == (segment - 128) * 5

\* the coarse byte of the whole degrees, without the half-degree bit
segment5_value_whole(self) ==
    IF self < 160 THEN 31 - 16
    ELSE IF self > 310 THEN 31 - 31
    ELSE 31 - TruncDiv(self, 10)

segment5_value(self) ==
    IF self < 160 THEN 31 - 16
    ELSE IF self > 310 THEN 31 - 31
    ELSE LET e == 31 - TruncDiv(self, 10)
             frac == self % 10
         IN  (IF frac >= 5 THEN 16 ELSE 0) + e

\* a variant: the floor division by 0.5 taken as one by 1
segment14_value_whole(self) == 128 + FloorDiv(self, 10)

\* 0x80 + int(self // 0.5)
segment14_value(self) == 128 + FloorDiv(self, 5)

---------------------------------------------------------------------------
(* estimate_power_consumption: watts, held as an integer number of tenths  *)

mode_base_watts(mode) ==
    CASE mode = "COOLER" -> 1200
      [] mode = "HEATER" -> 1000
      [] mode = "AUTO" -> 1100
      [] mode = "DEHUM" -> 800
      [] mode = "FAN" -> 50
      [] mode = "AUTO_COOLER" -> 1200
      [] mode = "AUTO_HEATER" -> 1000
      [] OTHER -> 1000

fan_power_map(fan_speed) ==
    CASE fan_speed = "AUTO" -> 50
      [] fan_speed = "LEVEL_1" -> 30
      [] fan_speed = "LEVEL_2" -> 60
      [] fan_speed = "LEVEL_3" -> 90
      [] fan_speed = "LEVEL_FULL" -> 120
      [] OTHER -> 50

\* n / d cut to a whole number
RoundDown(n, d) == n \div d

\* round(n / d, 0) for n >= 0, d > 0: to the nearest, a tie to the even neighbour
RoundHalfEven(n, d) ==
    LET q == n \div d
        r == n % d
    IN  IF 2 * r < d THEN q
        ELSE IF 2 * r > d THEN q + 1
        ELSE IF q % 2 = 0 THEN q ELSE q + 1

estimate_power_consumption(compressor_frequency, mode, fan_speed) ==
    IF compressor_frequency = 0 THEN 100
    ELSE RoundHalfEven(
            10 * mode_base_watts(mode) * compressor_frequency
                + 255 * 10 * (fan_power_map(fan_speed) + 20),
            255)

---------------------------------------------------------------------------
(* GeneralStates                                                           *)

\* GeneralStates(): the dataclass defaults
GeneralStates_default ==
    [ power_on_off |-> "OFF",
      drive_mode |-> "AUTO",
      temperature |-> 220,
      wind_speed |-> "AUTO",
      vertical_wind_direction_right |-> "AUTO",
      vertical_wind_direction_left |-> "AUTO",
      horizontal_wind_direction |-> "AUTO",
      dehum_setting |-> 0,
      is_power_saving |-> FALSE,
      wind_and_wind_break_direct |-> 0,
      i_see_sensor |-> FALSE,
      mode_raw_value |-> 0,
      wide_vane_adjustment |-> FALSE,
      temp_mode |-> FALSE,
      undocumented_flags |-> None ]

PayloadMarkers == {98, 123}

is_general_states_payload(p) ==
    IF Len(p) < 6 THEN FALSE ELSE p[2] \in PayloadMarkers /\ p[6] = 2

\* the (drive_mode, i_see_active, raw_mode_value) tuple
parse_mode_with_i_see(mode_byte) ==
    LET i_see_active == mode_byte > 8
        actual_mode_value == IF i_see_active THEN mode_byte - 8 ELSE mode_byte
    IN  [ drive_mode |-> DriveMode_from_segment(actual_mode_value),
          i_see_active |-> i_see_active,
          raw_mode |-> mode_byte ]

KnownModeBytes == {0, 1, 2, 3, 7, 8, 9, 10, 11, 12, 25, 27}

unused_positions == {12, 17, 19}

\* the members of S within lo..hi in ascending order: the order in which a loop
\* over lo..hi appends them to a list
RECURSIVE Ascending(_, _, _)
Ascending(lo, hi, S) ==
    IF lo > hi THEN <<>>
    ELSE (IF lo \in S THEN <<lo>> ELSE <<>>) \o Ascending(lo + 1, hi, S)

\* analyze_undocumented_bits(payload), payload the hex string of a frame.  Every
\* slice the loop parses is two hex digits, so its except clause is never entered.
analyze_undocumented_bits(p) ==
    LET byte_hex(pos) == Slice(p, 2 * pos, 2 * pos + 2)
        byte_val(pos) == IntHex(byte_hex(pos))
        last == (Min(Len(p), 42) + 1) \div 2 - 1
        visited(pos) == 2 * pos + 2 <= Len(p)
        positions == 0..last
        high == Ascending(0, last,
                    { pos \in positions : visited(pos) /\ BitAnd(byte_val(pos), 128) # 0 })
        high_entry(pos) == [position |-> pos, hex |-> byte_hex(pos), value |-> byte_val(pos)]
        odd_mode == Ascending(0, last,
                    { pos \in positions :
                        visited(pos) /\ pos = 9 /\ byte_val(pos) \notin KnownModeBytes })
        mode_entry(pos) ==
            [ type |-> "unknown_mode", position |-> pos, hex |-> byte_hex(pos),
              value |-> byte_val(pos), possible_i_see |-> byte_val(pos) > 8 ]
        unknown == { pos \in unused_positions :
                        pos <= last /\ visited(pos) /\ byte_val(pos) # 0 }
    IN  IF Len(p) < 42
        THEN [ payload_length |-> Len(p), suspicious_patterns |-> <<>>,
               high_bits_set |-> <<>>, unknown_segments |-> <<>> ]
        ELSE [ payload_length |-> Len(p),
               suspicious_patterns |->
                   [ i \in 1..Len(odd_mode) |-> mode_entry(odd_mode[i]) ],
               high_bits_set |-> [ i \in 1..Len(high) |-> high_entry(high[i]) ],
               unknown_segments |->
                   [ pos \in unknown |-> [hex |-> byte_hex(pos), value |-> byte_val(pos)] ] ]

\* GeneralStates.deserialize(data)
GeneralStates_deserialize(data) ==
    IF Len(data) < 21 THEN Raise("ValueError")
    ELSE
    LET p == hex(data)
        temp_direct_raw == data[17]
        \* the three outcomes of the if/elif that assigns temperature and temp_mode
        temp_bound == Len(p) > 33 \/ Len(p) > 21
        temp_mode_bound == Len(p) > 33
        temp_mode == temp_direct_raw # 0
        temperature ==
            IF Len(p) > 33 /\ temp_direct_raw # 0
            THEN MitsubishiTemperature_from_segment(temp_direct_raw)
            ELSE MitsubishiTemperature_from_segment(data[11])
        mode == parse_mode_with_i_see(data[10])
        wide_vane_data == IF Len(p) > 31 THEN data[16] ELSE 0
        undocumented_analysis == analyze_undocumented_bits(p)
    IN  IF ~(temp_bound /\ temp_mode_bound) THEN Raise("UnboundLocalError")
        ELSE Return(
          [ power_on_off |-> PowerOnOff_from_segment(Format02x(data[9])),
            temperature |-> temperature,
            drive_mode |-> mode.drive_mode,
            wind_speed |-> WindSpeed_from_segment(Slice(p, 22, 24)),
            vertical_wind_direction_right |->
                VerticalWindDirection_from_segment(Slice(p, 24, 26)),
            vertical_wind_direction_left |->
                VerticalWindDirection_from_segment(Slice(p, 40, 42)),
            horizontal_wind_direction |->
                HorizontalWindDirection_from_segment(Format02x(BitAnd(wide_vane_data, 15))),
            dehum_setting |-> IF Len(p) > 35 THEN data[18] ELSE 0,
            is_power_saving |-> IF Len(p) > 37 THEN data[19] > 0 ELSE FALSE,
            wind_and_wind_break_direct |-> IF Len(p) > 39 THEN data[20] ELSE 0,
            i_see_sensor |-> mode.i_see_active,
            mode_raw_value |-> mode.raw_mode,
            wide_vane_adjustment |-> BitAnd(wide_vane_data, 240) = 128,
            temp_mode |-> temp_mode,
            undocumented_flags |->
                IF undocumented_analysis.suspicious_patterns # <<>>
                   \/ DOMAIN undocumented_analysis.unknown_segments # {}
                THEN undocumented_analysis ELSE None ])

---------------------------------------------------------------------------
(* SensorStates, EnergyStates, ErrorStates                                 *)

\* the group byte alone, whatever the marker
is_sensor_states_payload_by_group(p) ==
    IF Len(p) < 6 THEN FALSE ELSE p[6] = 3

is_sensor_states_payload(p) ==
    IF Len(p) < 6 THEN FALSE ELSE p[2] \in PayloadMarkers /\ p[6] = 3

\* the decoder reading a short frame as if zero bytes followed it
SensorStates_deserialize_padded(p) ==
    LET q == IF Len(p) >= 21 THEN p ELSE p \o [i \in 1..(21 - Len(p)) |-> 0]
    IN  Return(
          [ outside_temperature |-> MitsubishiTemperature_from_segment(q[11]),
            room_temperature |-> MitsubishiTemperature_from_segment(q[13]),
            thermal_sensor |-> BitAnd(q[20], 1) # 0,
            wind_speed_pr557 |-> IF BitAnd(q[21], 1) = 1 THEN 1 ELSE 0 ])

SensorStates_deserialize(p) ==
    IF Len(p) < 21 THEN Raise("ValueError")
    ELSE Return(
      [ outside_temperature |-> MitsubishiTemperature_from_segment(p[11]),
        room_temperature |-> MitsubishiTemperature_from_segment(p[13]),
        thermal_sensor |-> BitAnd(p[20], 1) # 0,
        wind_speed_pr557 |-> IF BitAnd(p[21], 1) = 1 THEN 1 ELSE 0 ])

is_energy_states_payload(p) ==
    IF Len(p) < 6 THEN FALSE ELSE p[2] \in PayloadMarkers /\ p[6] = 6

\* the decoder taking the defaults of GeneralStates where it is handed no state
EnergyStates_deserialize_defaulted(payload_b, general_states) ==
    LET p == hex(payload_b)
        compressor_frequency == IntHex(Slice(p, 18, 20))
        used == IF general_states # None THEN general_states ELSE GeneralStates_default
    IN  IF Len(payload_b) < 12 THEN Raise("ValueError")
        ELSE Return(
          [ compressor_frequency |-> compressor_frequency,
            operating |-> IntHex(Slice(p, 20, 22)) > 0,
            estimated_power_watts |->
                Some(estimate_power_consumption(
                         compressor_frequency, used.drive_mode, used.wind_speed)) ])

\* EnergyStates.deserialize(payload_b, general_states), general_states None or a state
EnergyStates_deserialize(payload_b, general_states) ==
    LET p == hex(payload_b)
        compressor_frequency == IntHex(Slice(p, 18, 20))
    IN  IF Len(payload_b) < 12 THEN Raise("ValueError")
        ELSE Return(
          [ compressor_frequency |-> compressor_frequency,
            operating |-> IntHex(Slice(p, 20, 22)) > 0,
            estimated_power_watts |->
                IF general_states # None
                THEN Some(estimate_power_consumption(
                              compressor_frequency,
                              general_states.drive_mode,
                              general_states.wind_speed))
                ELSE None ])

is_error_states_payload(p) ==
    IF Len(p) < 6 THEN FALSE ELSE p[2] \in PayloadMarkers /\ p[6] = 4

\* a variant: `or` for `and` in the test for the 8000 sentinel
ErrorStates_deserialize_or(payload_b) ==
    LET p == hex(payload_b)
        code_head == Slice(p, 18, 20)
        code_tail == Slice(p, 20, 22)
    IN  IF Len(p) < 22 THEN Raise("ValueError")
        ELSE Return(
          [ is_abnormal_state |-> ~(code_head = <<"8", "0">> \/ code_tail = <<"0", "0">>),
            error_code |-> code_head \o code_tail ])

ErrorStates_deserialize(payload_b) ==
    LET p == hex(payload_b)
        code_head == Slice(p, 18, 20)
        code_tail == Slice(p, 20, 22)
    IN  IF Len(p) < 22 THEN Raise("ValueError")
        ELSE Return(
          [ is_abnormal_state |-> ~(code_head = <<"8", "0">> /\ code_tail = <<"0", "0">>),
            error_code |-> code_head \o code_tail ])

---------------------------------------------------------------------------
(* ParsedDeviceState and parse_code_values                                 *)

\* ParsedDeviceState(): the four slots (the identity fields are not set here)
ParsedDeviceState_default ==
    [general |-> None, sensors |-> None, errors |-> None, energy |-> None]

\* the loop body with slots that are written once: a frame of a group whose slot
\* is filled is decoded and dropped
parse_code_value_once(parsed_state, value) ==
    LET Fill(slot, r) ==
            IF r.raised # "" THEN Raise(r.raised)
            ELSE IF parsed_state[slot] # None THEN Return(parsed_state)
            ELSE Return([parsed_state EXCEPT ![slot] = r.value])
    IN  IF Len(hex(value)) < 20 THEN Return(parsed_state)
        ELSE IF is_general_states_payload(value)
        THEN Fill("general", GeneralStates_deserialize(value))
        ELSE IF is_sensor_states_payload(value)
        THEN Fill("sensors", SensorStates_deserialize(value))
        ELSE IF is_error_states_payload(value)
        THEN Fill("errors", ErrorStates_deserialize(value))
        ELSE IF is_energy_states_payload(value)
        THEN Fill("energy", EnergyStates_deserialize(value, parsed_state.general))
        ELSE Return(parsed_state)

\* one pass of the loop body of parse_code_values over `value`:
\* Return(the state after it) or Raise(what a decoder raised)
parse_code_value(parsed_state, value) ==
    LET hex_value == hex(value)
    IN  IF hex_value = <<>> \/ Len(hex_value) < 20 THEN Return(parsed_state)
        ELSE IF ~(\A i \in 1..Len(hex_value) : \E d \in 1..16 : HexDigits[d] = hex_value[i])
        THEN Return(parsed_state)
        ELSE IF is_general_states_payload(value)
        THEN LET r == GeneralStates_deserialize(value)
             IN  IF r.raised # "" THEN Raise(r.raised)
                 ELSE Return([parsed_state EXCEPT !.general = r.value])
        ELSE IF is_sensor_states_payload(value)
        THEN LET r == SensorStates_deserialize(value)
             IN  IF r.raised # "" THEN Raise(r.raised)
                 ELSE Return([parsed_state EXCEPT !.sensors = r.value])
        ELSE IF is_error_states_payload(value)
        THEN LET r == ErrorStates_deserialize(value)
             IN  IF r.raised # "" THEN Raise(r.raised)
                 ELSE Return([parsed_state EXCEPT !.errors = r.value])
        ELSE IF is_energy_states_payload(value)
        THEN LET r == EnergyStates_deserialize(value, parsed_state.general)
             IN  IF r.raised # "" THEN Raise(r.raised)
                 ELSE Return([parsed_state EXCEPT !.energy = r.value])
        ELSE Return(parsed_state)

---------------------------------------------------------------------------
(* The AES-CBC envelope of mitsubishi_api.py.  A str that is encrypted or  *)
(* decrypted is a sequence of code points, the base64 text a sequence of   *)
(* one-character strings.  AES is the cipher of FIPS-197 with a 128-bit    *)
(* key; a block is 16 bytes, column after column.  TLC holds a function    *)
(* constructor unevaluated, so a block built by one is concatenated with   *)
(* the empty sequence, which makes it a tuple of values.                   *)

KEY_SIZE == 16

STATIC_KEY == <<117, 110, 114, 101, 103, 105, 115, 116, 101, 114, 101, 100, 0, 0, 0, 0>>

\* the key filled with NUL bytes up to KEY_SIZE, a longer one kept whole
MitsubishiAPI_init_filled(key) ==
    IF Len(key) >= KEY_SIZE THEN key ELSE key \o [i \in 1..(KEY_SIZE - Len(key)) |-> 0]

\* MitsubishiAPI.__init__: the key filled with NUL bytes and trimmed to KEY_SIZE
MitsubishiAPI_init(key) ==
    IF Len(key) # KEY_SIZE
    THEN Slice(key \o [i \in 1..(KEY_SIZE - Len(key)) |-> 0], 0, KEY_SIZE)
    ELSE key

\* a ^ b on 4 bits: Xor4[a + 1][b + 1]
Xor4 ==
    <<
    <<0, 1, 2, 3, 4, 5, 6, 7, 8, 9, 10, 11, 12, 13, 14, 15>>,
    <<1, 0, 3, 2, 5, 4, 7, 6, 9, 8, 11, 10, 13, 12, 15, 14>>,
    <<2, 3, 0, 1, 6, 7, 4, 5, 10, 11, 8, 9, 14, 15, 12, 13>>,
    <<3, 2, 1, 0, 7, 6, 5, 4, 11, 10, 9, 8, 15, 14, 13, 12>>,
    <<4, 5, 6, 7, 0, 1, 2, 3, 12, 13, 14, 15, 8, 9, 10, 11>>,
    <<5, 4, 7, 6, 1, 0, 3, 2, 13, 12, 15, 14, 9, 8, 11, 10>>,
    <<6, 7, 4, 5, 2, 3, 0, 1, 14, 15, 12, 13, 10, 11, 8, 9>>,
    <<7, 6, 5, 4, 3, 2, 1, 0, 15, 14, 13, 12, 11, 10, 9, 8>>,
    <<8, 9, 10, 11, 12, 13, 14, 15, 0, 1, 2, 3, 4, 5, 6, 7>>,
    <<9, 8, 11, 10, 13, 12, 15, 14, 1, 0, 3, 2, 5, 4, 7, 6>>,
    <<10, 11, 8, 9, 14, 15, 12, 13, 2, 3, 0, 1, 6, 7, 4, 5>>,
    <<11, 10, 9, 8, 15, 14, 13, 12, 3, 2, 1, 0, 7, 6, 5, 4>>,
    <<12, 13, 14, 15, 8, 9, 10, 11, 4, 5, 6, 7, 0, 1, 2, 3>>,
    <<13, 12, 15, 14, 9, 8, 11, 10, 5, 4, 7, 6, 1, 0, 3, 2>>,
    <<14, 15, 12, 13, 10, 11, 8, 9, 6, 7, 4, 5, 2, 3, 0, 1>>,
    <<15, 14, 13, 12, 11, 10, 9, 8, 7, 6, 5, 4, 3, 2, 1, 0>>
    >>

\* a ^ b on bytes
xor(a, b) == 16 * Xor4[(a \div 16) + 1][(b \div 16) + 1] + Xor4[(a % 16) + 1][(b % 16) + 1]

\* strxor: the bytewise ^ of two sequences of one length
strxor(s, t) == [i \in 1..Len(s) |-> xor(s[i], t[i])] \o <<>>

\* the AES S-box: SBox[x + 1] substitutes byte x
SBox ==
    <<
    99, 124, 119, 123, 242, 107, 111, 197, 48, 1, 103, 43, 254, 215, 171, 118,
    202, 130, 201, 125, 250, 89, 71, 240, 173, 212, 162, 175, 156, 164, 114, 192,
    183, 253, 147, 38, 54, 63, 247, 204, 52, 165, 229, 241, 113, 216, 49, 21,
    4, 199, 35, 195, 24, 150, 5, 154, 7, 18, 128, 226, 235, 39, 178, 117,
    9, 131, 44, 26, 27, 110, 90, 160, 82, 59, 214, 179, 41, 227, 47, 132,
    83, 209, 0, 237, 32, 252, 177, 91, 106, 203, 190, 57, 74, 76, 88, 207,
    208, 239, 170, 251, 67, 77, 51, 133, 69, 249, 2, 127, 80, 60, 159, 168,
    81, 163, 64, 143, 146, 157, 56, 245, 188, 182, 218, 33, 16, 255, 243, 210,
    205, 12, 19, 236, 95, 151, 68, 23, 196, 167, 126, 61, 100, 93, 25, 115,
    96, 129, 79, 220, 34, 42, 144, 136, 70, 238, 184, 20, 222, 94, 11, 219,
    224, 50, 58, 10, 73, 6, 36, 92, 194, 211, 172, 98, 145, 149, 228, 121,
    231, 200, 55, 109, 141, 213, 78, 169, 108, 86, 244, 234, 101, 122, 174, 8,
    186, 120, 37, 46, 28, 166, 180, 198, 232, 221, 116, 31, 75, 189, 139, 138,
    112, 62, 181, 102, 72, 3, 246, 14, 97, 53, 87, 185, 134, 193, 29, 158,
    225, 248, 152, 17, 105, 217, 142, 148, 155, 30, 135, 233, 206, 85, 40, 223,
    140, 161, 137, 13, 191, 230, 66, 104, 65, 153, 45, 15, 176, 84, 187, 22
    >>

\* the inverse S-box
InvSBox ==
    <<
    82, 9, 106, 213, 48, 54, 165, 56, 191, 64, 163, 158, 129, 243, 215, 251,
    124, 227, 57, 130, 155, 47, 255, 135, 52, 142, 67, 68, 196, 222, 233, 203,
    84, 123, 148, 50, 166, 194, 35, 61, 238, 76, 149, 11, 66, 250, 195, 78,
    8, 46, 161, 102, 40, 217, 36, 178, 118, 91, 162, 73, 109, 139, 209, 37,
    114, 248, 246, 100, 134, 104, 152, 22, 212, 164, 92, 204, 93, 101, 182, 146,
    108, 112, 72, 80, 253, 237, 185, 218, 94, 21, 70, 87, 167, 141, 157, 132,
    144, 216, 171, 0, 140, 188, 211, 10, 247, 228, 88, 5, 184, 179, 69, 6,
    208, 44, 30, 143, 202, 63, 15, 2, 193, 175, 189, 3, 1, 19, 138, 107,
    58, 145, 17, 65, 79, 103, 220, 234, 151, 242, 207, 206, 240, 180, 230, 115,
    150, 172, 116, 34, 231, 173, 53, 133, 226, 249, 55, 232, 28, 117, 223, 110,
    71, 241, 26, 113, 29, 41, 197, 137, 111, 183, 98, 14, 170, 24, 190, 27,
    252, 86, 62, 75, 198, 210, 121, 32, 154, 219, 192, 254, 120, 205, 90, 244,
    31, 221, 168, 51, 136, 7, 199, 49, 177, 18, 16, 89, 39, 128, 236, 95,
    96, 81, 127, 169, 25, 181, 74, 13, 45, 229, 122, 159, 147, 201, 156, 239,
    160, 224, 59, 77, 174, 42, 245, 176, 200, 235, 187, 60, 131, 83, 153, 97,
    23, 43, 4, 126, 186, 119, 214, 38, 225, 105, 20, 99, 85, 33, 12, 125
    >>

\* the product by x in GF(2^8) modulo x^8 + x^4 + x^3 + x + 1
xtime(a) == IF a >= 128 THEN xor((2 * a) % 256, 27) ELSE 2 * a

\* the product of a and b in GF(2^8)
RECURSIVE gmul(_, _)
gmul(a, b) ==
    IF b = 0 THEN 0
    ELSE xor(IF b % 2 = 1 THEN a ELSE 0, gmul(xtime(a), b \div 2))

SubBytes(s) == [p \in 1..16 |-> SBox[s[p] + 1]] \o <<>>

InvSubBytes(s) == [p \in 1..16 |-> InvSBox[s[p] + 1]] \o <<>>

\* row r of the block moves r columns to the left
ShiftRows(s) ==
    [p \in 1..16 |->
        LET c == (p - 1) \div 4
            r == (p - 1) % 4
        IN  s[4 * ((c + r) % 4) + r + 1]] \o <<>>

InvShiftRows(s) ==
    [p \in 1..16 |->
        LET c == (p - 1) \div 4
            r == (p - 1) % 4
        IN  s[4 * ((c + 4 - r) % 4) + r + 1]] \o <<>>

\* each column times the matrix of rows 2 3 1 1 rotated
MixColumns(s) ==
    [p \in 1..16 |->
        LET c == (p - 1) \div 4
            r == (p - 1) % 4
            a(j) == s[4 * c + ((r + j) % 4) + 1]
        IN  xor(xor(gmul(a(0), 2), gmul(a(1), 3)), xor(a(2), a(3)))] \o <<>>

\* each column times the matrix of rows 14 11 13 9 rotated
InvMixColumns(s) ==
    [p \in 1..16 |->
        LET c == (p - 1) \div 4
            r == (p - 1) % 4
            a(j) == s[4 * c + ((r + j) % 4) + 1]
        IN  xor(xor(gmul(a(0), 14), gmul(a(1), 11)),
                xor(gmul(a(2), 13), gmul(a(3), 9)))] \o <<>>

Rcon == <<1, 2, 4, 8, 16, 32, 64, 128, 27, 54>>

\* the round key after round key k: its first word is xored with the last word
\* rotated, substituted and marked with the round constant, every other word with
\* the new word before it
NextRoundKey(k, r) ==
    LET g == <<xor(SBox[k[14] + 1], Rcon[r]), SBox[k[15] + 1],
               SBox[k[16] + 1], SBox[k[13] + 1]>>
        w0 == strxor(SubSeq(k, 1, 4), g)
        w1 == strxor(SubSeq(k, 5, 8), w0)
        w2 == strxor(SubSeq(k, 9, 12), w1)
        w3 == strxor(SubSeq(k, 13, 16), w2)
    IN  w0 \o w1 \o w2 \o w3

\* the key schedule: w holds the round keys made so far, 11 of 16 bytes in the end
RECURSIVE KeyExpansion(_)
KeyExpansion(w) ==
    IF Len(w) >= 176 THEN w
    ELSE KeyExpansion(w \o NextRoundKey(SubSeq(w, Len(w) - 15, Len(w)), Len(w) \div 16))

\* the round key of round r in 0..10
RoundKey(w, r) == SubSeq(w, 16 * r + 1, 16 * r + 16)

\* rounds r..10 of the cipher on the block s; the test of Len(s) has TLC evaluate
\* the block of each round before the next round starts
RECURSIVE Rounds(_, _, _)
Rounds(w, s, r) ==
    IF Len(s) = 16 /\ r < 10
    THEN Rounds(w, strxor(MixColumns(ShiftRows(SubBytes(s))), RoundKey(w, r)), r + 1)
    ELSE strxor(ShiftRows(SubBytes(s)), RoundKey(w, 10))

\* the cipher on one block under the expanded key w
Cipher(w, block) == Rounds(w, strxor(block, RoundKey(w, 0)), 1)

\* rounds r..0 of the inverse cipher
RECURSIVE InvRounds(_, _, _)
InvRounds(w, s, r) ==
    IF Len(s) = 16 /\ r > 0
    THEN InvRounds(w, InvMixColumns(strxor(InvSubBytes(InvShiftRows(s)), RoundKey(w, r))),
                   r - 1)
    ELSE strxor(InvSubBytes(InvShiftRows(s)), RoundKey(w, 0))

\* the inverse cipher on one block
InvCipher(w, block) == InvRounds(w, strxor(block, RoundKey(w, 10)), 9)

\* AES.new(key, AES.MODE_CBC, iv).encrypt(plaintext): each block is xored with the
\* ciphertext block before it, the first with the iv
RECURSIVE CbcEncrypt(_, _, _)
CbcEncrypt(w, chain, plaintext) ==
    IF plaintext = <<>> THEN <<>>
    ELSE LET block == Cipher(w, strxor(SubSeq(plaintext, 1, 16), chain))
         IN  block \o CbcEncrypt(w, block, SubSeq(plaintext, 17, Len(plaintext)))

RECURSIVE CbcDecrypt(_, _, _)
CbcDecrypt(w, chain, ciphertext) ==
    IF ciphertext = <<>> THEN <<>>
    ELSE LET block == SubSeq(ciphertext, 1, 16)
         IN  strxor(InvCipher(w, block), chain)
             \o CbcDecrypt(w, block, SubSeq(ciphertext, 17, Len(ciphertext)))

\* AES.new(...) and cipher.encrypt(...): ValueError for an iv that is not one block
\* or a plaintext that is not whole blocks
AES_CBC_encrypt(key, iv, plaintext) ==
    IF Len(iv) # 16 \/ Len(plaintext) % 16 # 0 THEN Raise("ValueError")
    ELSE Return(CbcEncrypt(KeyExpansion(key), iv, plaintext))

AES_CBC_decrypt(key, iv, ciphertext) ==
    IF Len(iv) # 16 \/ Len(ciphertext) % 16 # 0 THEN Raise("ValueError")
    ELSE Return(CbcDecrypt(KeyExpansion(key), iv, ciphertext))

\* padding up to the block end only: nothing is added to whole blocks
pad_to_boundary(data_to_pad, block_size) ==
    LET padding_len == (block_size - (Len(data_to_pad) % block_size)) % block_size
    IN  IF padding_len = 0 THEN data_to_pad
        ELSE data_to_pad \o <<128>> \o [i \in 1..(padding_len - 1) |-> 0]

\* zero padding, which the comment in encrypt_payload names: zero bytes up to the
\* block end and no marker
pad_zeros(data_to_pad, block_size) ==
    data_to_pad \o [i \in 1..(block_size - (Len(data_to_pad) % block_size)) |-> 0]

\* pad(data, block_size, 'iso7816'): 0x80, then zero bytes up to the block end
pad(data_to_pad, block_size) ==
    LET padding_len == block_size - (Len(data_to_pad) % block_size)
    IN  data_to_pad \o <<128>> \o [i \in 1..(padding_len - 1) |-> 0]

\* bytes.rfind(byte): the 0-based index of the last occurrence, -1 if there is none
rfind(s, b) ==
    LET at == {i \in 1..Len(s) : s[i] = b}
    IN  IF at = {} THEN -1 ELSE (CHOOSE i \in at : \A j \in at : j <= i) - 1

\* strips the zero bytes and the marker at the end where there are any, and
\* accepts everything else as it is
unpad_lenient(padded_data, block_size) ==
    LET pdata_len == Len(padded_data)
        padding_len == pdata_len - rfind(padded_data, 128)
    IN  IF padding_len >= 1 /\ padding_len <= pdata_len
           /\ \A i \in (pdata_len - padding_len + 2)..pdata_len : padded_data[i] = 0
        THEN Return(SubSeq(padded_data, 1, pdata_len - padding_len))
        ELSE Return(padded_data)

\* unpad(data, block_size, 'iso7816')
unpad(padded_data, block_size) ==
    LET pdata_len == Len(padded_data)
        padding_len == pdata_len - rfind(padded_data, 128)
    IN  IF pdata_len = 0 THEN Raise("ValueError")
        ELSE IF pdata_len % block_size # 0 THEN Raise("ValueError")
        ELSE IF padding_len < 1 \/ padding_len > Min(block_size, pdata_len)
             THEN Raise("ValueError")
        ELSE IF padding_len > 1
                /\ \E i \in (pdata_len - padding_len + 2)..pdata_len : padded_data[i] # 0
             THEN Raise("ValueError")
        ELSE Return(SubSeq(padded_data, 1, pdata_len - padding_len))

\* the code points str.encode('utf-8') refuses: the surrogates
IsSurrogate(cp) == cp >= 55296 /\ cp <= 57343

\* the UTF-8 bytes of one code point
utf8_bytes(cp) ==
    IF cp < 128 THEN <<cp>>
    ELSE IF cp < 2048 THEN <<192 + (cp \div 64), 128 + (cp % 64)>>
    ELSE IF cp < 65536
         THEN <<224 + (cp \div 4096), 128 + ((cp \div 64) % 64), 128 + (cp % 64)>>
    ELSE <<240 + (cp \div 262144), 128 + ((cp \div 4096) % 64),
           128 + ((cp \div 64) % 64), 128 + (cp % 64)>>

\* str.encode('utf-8')
RECURSIVE utf8_join(_)
utf8_join(s) == IF s = <<>> THEN <<>> ELSE utf8_bytes(Head(s)) \o utf8_join(Tail(s))

encode_utf8(s) ==
    IF \E i \in 1..Len(s) : IsSurrogate(s[i]) THEN Raise("UnicodeEncodeError")
    ELSE Return(utf8_join(s))

\* bytes.decode('utf-8'), strict: the code points, or -1 in the place of the first
\* byte that starts no well-formed sequence (too short, overlong, a surrogate,
\* above U+10FFFF)
RECURSIVE utf8_split(_)
utf8_split(b) ==
    IF b = <<>> THEN <<>>
    ELSE LET lead == b[1]
             n == IF lead < 128 THEN 1
                  ELSE IF lead >= 194 /\ lead <= 223 THEN 2
                  ELSE IF lead >= 224 /\ lead <= 239 THEN 3
                  ELSE IF lead >= 240 /\ lead <= 244 THEN 4
                  ELSE 0
             IsCont(i) == i <= Len(b) /\ b[i] >= 128 /\ b[i] <= 191
             cp == IF n = 1 THEN lead
                   ELSE IF n = 2 THEN (lead - 192) * 64 + (b[2] - 128)
                   ELSE IF n = 3
                        THEN (lead - 224) * 4096 + (b[2] - 128) * 64 + (b[3] - 128)
                   ELSE (lead - 240) * 262144 + (b[2] - 128) * 4096
                        + (b[3] - 128) * 64 + (b[4] - 128)
             ok == /\ n >= 1
                   /\ \A i \in 2..n : IsCont(i)
                   /\ n = 3 => cp >= 2048 /\ ~IsSurrogate(cp)
                   /\ n = 4 => cp >= 65536 /\ cp <= 1114111
         IN  IF ok THEN <<cp>> \o utf8_split(SubSeq(b, n + 1, Len(b))) ELSE <<-1>>

decode_utf8(b) ==
    LET s == utf8_split(b)
    IN  IF \E i \in 1..Len(s) : s[i] = -1 THEN Raise("UnicodeDecodeError") ELSE Return(s)

Base64Alphabet ==
    <<
    "A", "B", "C", "D", "E", "F", "G", "H", "I", "J", "K", "L", "M", "N", "O", "P",
    "Q", "R", "S", "T", "U", "V", "W", "X", "Y", "Z", "a", "b", "c", "d", "e", "f",
    "g", "h", "i", "j", "k", "l", "m", "n", "o", "p", "q", "r", "s", "t", "u", "v",
    "w", "x", "y", "z", "0", "1", "2", "3", "4", "5", "6", "7", "8", "9", "+", "/"
    >>

\* base64.b64encode(s).decode('utf-8'): each group of 3 bytes makes 4 characters
\* of 6 bits, a last group of 1 or 2 bytes is filled with "="
b64encode(s) ==
    [k \in 1..(4 * ((Len(s) + 2) \div 3)) |->
        LET g == (k - 1) \div 4
            j == (k - 1) % 4
            byte(i) == IF 3 * g + i <= Len(s) THEN s[3 * g + i] ELSE 0
            bits == byte(1) * 65536 + byte(2) * 256 + byte(3)
        IN  IF 3 * g + j <= Len(s)
            THEN Base64Alphabet[((bits \div (64 ^ (3 - j))) % 64) + 1]
            ELSE "="] \o <<>>

\* the 6 bits of a base64 character, 64 for any other character
b64value(ch) ==
    IF \E i \in 1..64 : Base64Alphabet[i] = ch
    THEN (CHOOSE i \in 1..64 : Base64Alphabet[i] = ch) - 1
    ELSE 64

\* base64.b64decode(s), that is binascii.a2b_base64: a character outside the
\* alphabet is skipped; "=" ends the data when the group being read has 3
\* characters, or has 2 and another "=" came since its last character; without
\* such an end a group left unfinished is an error
b64decode(s) ==
    LET v == [i \in 1..Len(s) |-> b64value(s[i])] \o <<>>
        quad_pos(i) == Cardinality({j \in 1..(i - 1) : v[j] < 64}) % 4
        pads(i) == {e \in 1..(i - 1) : s[e] = "=" /\ \A j \in e..i : v[j] >= 64}
        ends == {i \in 1..Len(s) :
                    /\ s[i] = "="
                    /\ quad_pos(i) >= 2
                    /\ quad_pos(i) + Cardinality(pads(i)) + 1 >= 4}
        last == IF ends = {} THEN Len(s) ELSE (CHOOSE i \in ends : \A j \in ends : i <= j)
        IsData(x) == x < 64
        d == SelectSeq(SubSeq(v, 1, last), IsData)
        bin_len == 3 * (Len(d) \div 4) + (IF Len(d) % 4 = 3 THEN 2 ELSE (Len(d) % 4) \div 2)
        bin_data == [k \in 1..bin_len |->
                        LET g == 4 * ((k - 1) \div 3)
                            j == (k - 1) % 3
                        IN  IF j = 0 THEN d[g + 1] * 4 + (d[g + 2] \div 16)
                            ELSE IF j = 1 THEN (d[g + 2] % 16) * 16 + (d[g + 3] \div 4)
                            ELSE (d[g + 3] % 4) * 64 + d[g + 4]] \o <<>>
    IN  IF ends = {} /\ Len(d) % 4 # 0 THEN Raise("binascii.Error") ELSE Return(bin_data)

\* MitsubishiAPI.encrypt_payload with the iv given
encrypt_payload(key, payload_str, iv) ==
    LET payload_bytes == encode_utf8(payload_str)
        padded_payload == pad(payload_bytes.value, KEY_SIZE)
        encrypted == AES_CBC_encrypt(key, iv, padded_payload)
    IN  IF Len(iv) # 16 THEN Raise("ValueError")
        ELSE IF payload_bytes.raised # "" THEN payload_bytes
        ELSE IF encrypted.raised # "" THEN encrypted
        ELSE Return(b64encode(iv \o encrypted.value))

\* MitsubishiAPI.decrypt_payload
decrypt_payload(key, payload_b64) ==
    LET encrypted == b64decode(payload_b64)
        iv == Slice(encrypted.value, 0, KEY_SIZE)
        encrypted_data == SubSeq(encrypted.value, KEY_SIZE + 1, Len(encrypted.value))
        decrypted == AES_CBC_decrypt(key, iv, encrypted_data)
        decrypted_clean == unpad(decrypted.value, KEY_SIZE)
    IN  IF encrypted.raised # "" THEN encrypted
        ELSE IF decrypted.raised # "" THEN decrypted
        ELSE IF decrypted_clean.raised # "" THEN decrypted_clean
        ELSE decode_utf8(decrypted_clean.value)

---------------------------------------------------------------------------
(* generate_general_command                                                *)

\* controls[key] where the key is present, false where it is not
get_present(controls, key, default) == key \in DOMAIN controls /\ controls[key]

\* controls.get(key, default) on a dict held as a function from its keys
get(controls, key, default) == IF key \in DOMAIN controls THEN controls[key] ELSE default

\* the concatenation of the strings of a list
RECURSIVE Join(_)
Join(strings) == IF strings = <<>> THEN <<>> ELSE Head(strings) \o Join(Tail(strings))

generate_general_command(general_states, controls) ==
    LET segment1_value ==
            (IF get(controls, "power_on_off", FALSE) THEN 1 ELSE 0)
            + (IF get(controls, "drive_mode", FALSE) THEN 2 ELSE 0)
            + (IF get(controls, "temperature", FALSE) THEN 4 ELSE 0)
            + (IF get(controls, "wind_speed", FALSE) THEN 8 ELSE 0)
            + (IF get(controls, "up_down_wind_direct", FALSE) THEN 16 ELSE 0)
        segment2_value ==
            (IF get(controls, "left_right_wind_direct", FALSE) THEN 1 ELSE 0)
            + (IF get(controls, "outside_control", TRUE) THEN 2 ELSE 0)
        \* segment0 .. segment15; segment8 .. segment12 are not in the dict
        segments ==
            << <<"0", "1">>,
               Format02x(segment1_value),
               Format02x(segment2_value),
               PowerOnOff_value(general_states.power_on_off),
               Format02x(DriveMode_value(general_states.drive_mode)),
               Format02x(segment5_value(general_states.temperature)),
               Format02x(WindSpeed_value(general_states.wind_speed)),
               Format02x(VerticalWindDirection_value(
                             general_states.vertical_wind_direction_right)),
               <<"0", "0">>, <<"0", "0">>, <<"0", "0">>, <<"0", "0">>, <<"0", "0">>,
               Format02x(HorizontalWindDirection_value(
                             general_states.horizontal_wind_direction)),
               Format02x(segment14_value(general_states.temperature)),
               <<"4", "1">> >>
        p == <<"4", "1", "0", "1", "3", "0", "1", "0">> \o Join(segments)
        payload_b == fromhex(p)
    IN  IF payload_b.raised # "" THEN Raise(payload_b.raised)
        ELSE Return(<<"f", "c">> \o p \o Format02x(calc_fcc(payload_b.value)))

generate_extend08_command(general_states, controls) ==
    LET segment_x_value ==
            (IF get(controls, "dehum", FALSE) THEN 4 ELSE 0)
            + (IF get(controls, "power_saving", FALSE) THEN 8 ELSE 0)
            + (IF get(controls, "buzzer", FALSE) THEN 16 ELSE 0)
            + (IF get(controls, "wind_and_wind_break", FALSE) THEN 32 ELSE 0)
        segment_x == Format02x(segment_x_value)
        segment_y == IF get(controls, "dehum", FALSE)
                     THEN Format02x(general_states.dehum_setting) ELSE <<"0", "0">>
        segment_z == IF general_states.is_power_saving THEN <<"0", "A">> ELSE <<"0", "0">>
        segment_a == IF get(controls, "wind_and_wind_break", FALSE)
                     THEN Format02x(general_states.wind_and_wind_break_direct)
                     ELSE <<"0", "0">>
        buzzer_segment == IF get(controls, "buzzer", FALSE) THEN <<"0", "1">> ELSE <<"0", "0">>
        p == <<"4", "1", "0", "1", "3", "0", "1", "0", "0", "8">> \o segment_x
             \o <<"0", "0", "0", "0">> \o segment_y \o segment_z \o segment_a
             \o buzzer_segment \o [i \in 1..16 |-> "0"]
        payload_b == fromhex(p)
    IN  IF payload_b.raised # "" THEN Raise(payload_b.raised)
        ELSE Return(<<"f", "c">> \o p \o Format02x(calc_fcc(payload_b.value)))

\* Bounds of the payloads handed to calc_fcc
MaxPayloadLen == 22

ByteSamples == {0, 1, 127, 128, 255}

\* n bytes `fill`, the last of them replaced by `last`
Pattern(n, fill, last) == [i \in 1..n |-> IF i = n THEN last ELSE fill]

\* the payloads of test_fcc
FccTestPayloads ==
    { <<1, 2, 3, 4, 5, 6, 7, 8, 9, 16, 17, 18, 19, 20, 21, 22, 23, 24, 25>>,
      <<255, 255, 255, 255, 255, 255, 255, 255, 255, 255, 2, 2, 0, 128, 0, 0, 0, 0>>,
      <<160, 190, 160, 190, 160, 190, 160, 190, 160, 190, 160, 190, 160, 190,
        160, 190, 160, 190>> }

FccPayloads ==
    FccTestPayloads \cup
    { Pattern(n, f, l) : n \in 0..MaxPayloadLen, f \in ByteSamples, l \in ByteSamples }

\* the variables of a component no operation of which runs
IdleChecksum == payload = <<>> /\ fcc = 0

IdleDecode == sent = <<>> /\ received = <<>> /\ context = None /\ result = None

IdleTemperature == celsius = 0 /\ fine_byte = 0 /\ decoded = 0

IdleCommand ==
    state_arg = None /\ controls_arg = <<>> /\ command = None /\ mode_parsed = None

IdleParse == code_values = <<>> /\ position = 0 /\ parsed = None /\ exc = ""

IdleCrypto ==
    /\ key_arg = <<>> /\ encryption_key = <<>> /\ plain = <<>> /\ iv_arg = <<>>
    /\ enc = None /\ dec = None /\ raw = <<>>

IdleClassify == candidate = <<>> /\ classes = None

IdlePower == frequency = 0 /\ drive = "" /\ fan = "" /\ watts = 0

InitChecksum ==
    /\ pc = "init"
    /\ payload \in FccPayloads
    /\ fcc = 0
    /\ IdleDecode /\ IdleTemperature /\ IdleCommand /\ IdleParse /\ IdleCrypto
    /\ IdleClassify /\ IdlePower

CalcFcc ==
    /\ pc = "init"
    /\ fcc' = calc_fcc(payload)
    /\ pc' = "calc_fcc"
    /\ UNCHANGED <<payload, notFccVars>>

NextChecksum == CalcFcc

SpecChecksum == InitChecksum /\ [][NextChecksum]_vars

---------------------------------------------------------------------------
(* The decoders, each handed a frame of its group: a frame a device sent,  *)
(* as sent, with one byte changed on the way, or cut short                 *)

\* frames recorded from a device (src/tests/test_general_states.py)
GeneralFrames ==
    { \* fc620130100200000108080000000083ae46000000d3
      <<252, 98, 1, 48, 16, 2, 0, 0, 1, 8, 8, 0, 0, 0, 0, 131, 174, 70, 0, 0, 0, 211>>,
      \* fc62013010020000010b090000000083ac46000000d1
      <<252, 98, 1, 48, 16, 2, 0, 0, 1, 11, 9, 0, 0, 0, 0, 131, 172, 70, 0, 0, 0, 209>>,
      \* fc620130100200000107070600000083b028000000eb
      <<252, 98, 1, 48, 16, 2, 0, 0, 1, 7, 7, 6, 0, 0, 0, 131, 176, 40, 0, 0, 0, 235>>,
      \* fc62013010020000010b070000000080b046000100d1
      <<252, 98, 1, 48, 16, 2, 0, 0, 1, 11, 7, 0, 0, 0, 0, 128, 176, 70, 0, 1, 0, 209>> }

SensorFrames ==
    { \* fc620130100300000f00b4b2b2fe420001141a0000c4
      <<252, 98, 1, 48, 16, 3, 0, 0, 15, 0, 180, 178, 178, 254, 66, 0, 1, 20, 26, 0, 0, 196>> }

ErrorFrames ==
    { \* fc6201301004000000800000000000000000000000d9
      <<252, 98, 1, 48, 16, 4, 0, 0, 0, 128, 0, 0, 0, 0, 0, 0, 0, 0, 0, 0, 0, 217>>,
      \* fc6201301004000000660100000000000000000000f2: the same frame reporting 6601
      <<252, 98, 1, 48, 16, 4, 0, 0, 0, 102, 1, 0, 0, 0, 0, 0, 0, 0, 0, 0, 0, 242>> }

EnergyFrames ==
    { \* fc620130100600000000001d5178000042000000002f
      <<252, 98, 1, 48, 16, 6, 0, 0, 0, 0, 0, 29, 81, 120, 0, 0, 66, 0, 0, 0, 0, 47>>,
      \* fc620130100600000040011d517800004200000000ee: the same frame reporting a
      \* running compressor, frequency 0x40
      <<252, 98, 1, 48, 16, 6, 0, 0, 0, 64, 1, 29, 81, 120, 0, 0, 66, 0, 0, 0, 0, 238>> }

DeviceFrames == GeneralFrames \cup SensorFrames \cup ErrorFrames \cup EnergyFrames

\* the general_states EnergyStates.deserialize may be handed
Contexts ==
    { None, GeneralStates_default,
      [GeneralStates_default EXCEPT !.drive_mode = "COOLER", !.wind_speed = "LEVEL_FULL"] }

DecoderOps ==
    { "GeneralStates.deserialize", "SensorStates.deserialize",
      "EnergyStates.deserialize", "ErrorStates.deserialize" }

InitDecode ==
    /\ pc = "init"
    /\ sent \in DeviceFrames
    /\ received = sent
    /\ context = None
    /\ result = None
    /\ IdleChecksum /\ IdleTemperature /\ IdleCommand /\ IdleParse /\ IdleCrypto
    /\ IdleClassify /\ IdlePower

\* the values a changed byte takes: every value at the offsets 8..20, where the
\* decoders read their fields, a sample of values at the others
ChangedValues(offset) == IF offset \in 8..20 THEN Byte ELSE ByteSamples \cup {2, 98, 123}

\* one byte of the frame arrives changed
Corrupt ==
    /\ pc = "init"
    /\ \E i \in 1..Len(received) : \E b \in ChangedValues(i - 1) :
          /\ b # received[i]
          /\ received' = [received EXCEPT ![i] = b]
    /\ pc' = "corrupt"
    /\ UNCHANGED <<sent, context, result, notDecodeVars>>

\* only the first n bytes of the frame arrive
Truncate ==
    /\ pc = "init"
    /\ \E n \in 0..(Len(received) - 1) : received' = SubSeq(received, 1, n)
    /\ pc' = "truncate"
    /\ UNCHANGED <<sent, context, result, notDecodeVars>>

Arrived == pc \in {"init", "corrupt", "truncate"}

DeserializeGeneral ==
    /\ Arrived
    /\ is_general_states_payload(sent)
    /\ result' = GeneralStates_deserialize(received)
    /\ pc' = "GeneralStates.deserialize"
    /\ UNCHANGED <<sent, received, context, notDecodeVars>>

DeserializeSensor ==
    /\ Arrived
    /\ is_sensor_states_payload(sent)
    /\ result' = SensorStates_deserialize(received)
    /\ pc' = "SensorStates.deserialize"
    /\ UNCHANGED <<sent, received, context, notDecodeVars>>

DeserializeEnergy ==
    /\ Arrived
    /\ is_energy_states_payload(sent)
    /\ \E g \in Contexts :
          /\ context' = g
          /\ result' = EnergyStates_deserialize(received, g)
    /\ pc' = "EnergyStates.deserialize"
    /\ UNCHANGED <<sent, received, notDecodeVars>>

DeserializeError ==
    /\ Arrived
    /\ is_error_states_payload(sent)
    /\ result' = ErrorStates_deserialize(received)
    /\ pc' = "ErrorStates.deserialize"
    /\ UNCHANGED <<sent, received, context, notDecodeVars>>

NextDecode ==
    \/ Corrupt
    \/ Truncate
    \/ DeserializeGeneral
    \/ DeserializeSensor
    \/ DeserializeEnergy
    \/ DeserializeError

SpecDecode == InitDecode /\ [][NextDecode]_vars

---------------------------------------------------------------------------
(* The temperature codec: a temperature is encoded to its fine byte, and   *)
(* the byte decoded                                                        *)

\* Bound of the temperatures: the halves of a degree in -MaxDegrees .. MaxDegrees
MaxDegrees == 66

Temperatures == { 5 * h : h \in (-2 * MaxDegrees)..(2 * MaxDegrees) }

InitTemperature ==
    /\ pc = "init"
    /\ celsius \in Temperatures
    /\ fine_byte = 0
    /\ decoded = 0
    /\ IdleChecksum /\ IdleDecode /\ IdleCommand /\ IdleParse /\ IdleCrypto
    /\ IdleClassify /\ IdlePower

Segment14 ==
    /\ pc = "init"
    /\ fine_byte' = segment14_value(celsius)
    /\ pc' = "segment14_value"
    /\ UNCHANGED <<celsius, decoded, notTempVars>>

FromSegment ==
    /\ pc = "segment14_value"
    /\ decoded' = MitsubishiTemperature_from_segment(fine_byte)
    /\ pc' = "from_segment"
    /\ UNCHANGED <<celsius, fine_byte, notTempVars>>

NextTemperature == Segment14 \/ FromSegment

SpecTemperature == InitTemperature /\ [][NextTemperature]_vars

---------------------------------------------------------------------------
(* The command encoders, handed a state and a selection set                *)

\* the temperatures of the states handed to the encoders, in tenths: every half
\* degree from 15.0 to 32.0
CommandTemperatures == {5 * h : h \in 30..64}

\* GeneralStates() with one field set to each of its values in turn
CommandStates ==
    {GeneralStates_default}
    \cup { [GeneralStates_default EXCEPT !.power_on_off = v] : v \in {"OFF", "ON"} }
    \cup { [GeneralStates_default EXCEPT !.drive_mode = v] : v \in DriveModes }
    \cup { [GeneralStates_default EXCEPT !.temperature = v] : v \in CommandTemperatures }
    \cup { [GeneralStates_default EXCEPT !.wind_speed = v] : v \in WindSpeeds }
    \cup { [GeneralStates_default EXCEPT !.vertical_wind_direction_right = v] :
              v \in VerticalWindDirections }
    \cup { [GeneralStates_default EXCEPT !.horizontal_wind_direction = v] :
              v \in HorizontalWindDirections }

GeneralControlKeys ==
    { "power_on_off", "drive_mode", "temperature", "wind_speed", "up_down_wind_direct",
      "left_right_wind_direct", "outside_control" }

\* the dicts that select a set of keys, and those that also switch outside_control off
GeneralControls ==
    { [k \in keys |-> TRUE] : keys \in SUBSET GeneralControlKeys }
    \cup { [k \in keys \cup {"outside_control"} |-> k # "outside_control"] :
              keys \in SUBSET {"power_on_off", "left_right_wind_direct"} }

\* GeneralStates() with the three fields generate_extend08_command reads set
ExtendStates ==
    { [GeneralStates_default EXCEPT !.dehum_setting = d, !.is_power_saving = s,
                                    !.wind_and_wind_break_direct = w] :
          d \in {0, 5, 160, 255}, s \in BOOLEAN, w \in {0, 3, 160, 255} }

ExtendControlKeys == {"dehum", "power_saving", "buzzer", "wind_and_wind_break"}

ExtendControls == { [k \in keys |-> TRUE] : keys \in SUBSET ExtendControlKeys }

InitCommand ==
    /\ pc = "init"
    /\ \/ state_arg \in CommandStates /\ controls_arg \in GeneralControls
       \/ state_arg \in ExtendStates /\ controls_arg \in ExtendControls
    /\ command = None
    /\ mode_parsed = None
    /\ IdleChecksum /\ IdleDecode /\ IdleTemperature /\ IdleParse /\ IdleCrypto
    /\ IdleClassify /\ IdlePower

GenerateGeneralCommand ==
    /\ pc = "init"
    /\ command' = generate_general_command(state_arg, controls_arg)
    /\ pc' = "generate_general_command"
    /\ UNCHANGED <<state_arg, controls_arg, mode_parsed, notCommandVars>>

GenerateExtend08Command ==
    /\ pc = "init"
    /\ command' = generate_extend08_command(state_arg, controls_arg)
    /\ pc' = "generate_extend08_command"
    /\ UNCHANGED <<state_arg, controls_arg, mode_parsed, notCommandVars>>

\* the mode byte (frame byte 9) of the command goes through the mode parsing of
\* the General decoder
ParseModeWithISee ==
    /\ pc = "generate_general_command"
    /\ command.raised = ""
    /\ mode_parsed' = parse_mode_with_i_see(IntHex(Slice(command.value, 18, 20)))
    /\ pc' = "parse_mode_with_i_see"
    /\ UNCHANGED <<state_arg, controls_arg, command, notCommandVars>>

NextCommand == GenerateGeneralCommand \/ GenerateExtend08Command \/ ParseModeWithISee

SpecCommand == InitCommand /\ [][NextCommand]_vars

---------------------------------------------------------------------------
(* parse_code_values over a list of frames, one pass of its loop a step    *)

\* Bound of the length of the list
MaxCodeValues == 3

CodeValuePool ==
    GeneralFrames \cup SensorFrames \cup ErrorFrames \cup EnergyFrames
    \cup { \* the first 9 bytes of a General frame
           <<252, 98, 1, 48, 16, 2, 0, 0, 1>>,
           \* the first 10 and the first 20 bytes of a General frame
           <<252, 98, 1, 48, 16, 2, 0, 0, 1, 8>>,
           <<252, 98, 1, 48, 16, 2, 0, 0, 1, 8, 8, 0, 0, 0, 0, 131, 174, 70, 0, 0>>,
           \* the first 15 bytes of a Sensor frame
           <<252, 98, 1, 48, 16, 3, 0, 0, 15, 0, 180, 178, 178, 254, 66>>,
           \* ffffffffffffffffffff0202008000 (src/tests/test_fixtures.py)
           <<255, 255, 255, 255, 255, 255, 255, 255, 255, 255, 2, 2, 0, 128, 0>>,
           \* fc620130100900000001000000000000000000000053: group 09
           <<252, 98, 1, 48, 16, 9, 0, 0, 0, 1, 0, 0, 0, 0, 0, 0, 0, 0, 0, 0, 0, 83>> }

RECURSIVE SeqsUpTo(_, _)
SeqsUpTo(S, n) ==
    IF n = 0 THEN {<<>>}
    ELSE LET shorter == SeqsUpTo(S, n - 1)
         IN  shorter \cup { Append(q, x) : q \in {r \in shorter : Len(r) = n - 1}, x \in S }

InitParse ==
    /\ pc = "init"
    /\ code_values \in SeqsUpTo(CodeValuePool, MaxCodeValues)
    /\ position = 0
    /\ parsed = ParsedDeviceState_default
    /\ exc = ""
    /\ IdleChecksum /\ IdleDecode /\ IdleTemperature /\ IdleCommand /\ IdleCrypto
    /\ IdleClassify /\ IdlePower

\* the loop takes the next value; an exception of a decoder leaves the function
ParseNext ==
    /\ pc \in {"init", "loop"}
    /\ position < Len(code_values)
    /\ LET r == parse_code_value(parsed, code_values[position + 1])
       IN  IF r.raised # ""
           THEN /\ exc' = r.raised
                /\ pc' = "raise"
                /\ UNCHANGED parsed
           ELSE /\ parsed' = r.value
                /\ pc' = "loop"
                /\ UNCHANGED exc
    /\ position' = position + 1
    /\ UNCHANGED <<code_values, notParseVars>>

\* the loop is over: return parsed_state
ParseReturn ==
    /\ pc \in {"init", "loop"}
    /\ position = Len(code_values)
    /\ pc' = "return"
    /\ UNCHANGED <<code_values, position, parsed, exc, notParseVars>>

NextParse == ParseNext \/ ParseReturn

SpecParse == InitParse /\ [][NextParse]_vars

---------------------------------------------------------------------------
(* The envelope: a payload is encrypted under the stored key and a given   *)
(* iv, and the text that comes out is decrypted                            *)

MaxChars == 17

\* code points of 1, 2, 3 and 4 UTF-8 bytes; NUL and U+0080 put the bytes 0x00
\* and 0x80 of the padding into the plaintext
CodePoints == {65, 0, 128, 8364, 128512}

Repeat(c, n) == [i \in 1..n |-> c]

Plaintexts == {Repeat(c, n) : c \in CodePoints, n \in 0..MaxChars}

\* the default key, the default key without its NUL bytes, and another key
KeyArguments == {STATIC_KEY, SubSeq(STATIC_KEY, 1, 12), [i \in 1..16 |-> (37 * i) % 256]}

\* the ivs of test_encrypt, and one with the marker byte of the padding
IVs == {Repeat(0, 16), Repeat(1, 16), [i \in 1..16 |-> (128 + 9 * i) % 256]}

InitCrypto ==
    /\ pc = "init"
    /\ IdleChecksum /\ IdleDecode /\ IdleTemperature /\ IdleCommand /\ IdleParse
    /\ IdleClassify /\ IdlePower
    /\ key_arg \in KeyArguments
    /\ encryption_key = MitsubishiAPI_init(key_arg)
    /\ plain \in Plaintexts
    /\ iv_arg \in IVs
    /\ enc = None
    /\ dec = None
    /\ raw = <<>>

EncryptPayload ==
    /\ pc = "init"
    /\ pc' = "encrypt_payload"
    /\ enc' = encrypt_payload(encryption_key, plain, iv_arg)
    /\ UNCHANGED <<key_arg, encryption_key, plain, iv_arg, dec, raw>>
    /\ UNCHANGED notCryptoVars

\* the padded bytes of the envelopes a peer sends: well-formed ones, ones whose
\* final block is no ISO 7816-4 padding, ones whose content is no UTF-8
PeerPlaintexts ==
    { Repeat(65, 15) \o <<128>>,
      <<240, 159, 152, 128, 128>> \o Repeat(0, 11),
      Repeat(65, 16) \o <<66, 128>> \o Repeat(0, 14),
      Repeat(65, 16),
      Repeat(0, 16),
      <<65, 128>> \o Repeat(0, 13) \o <<1>>,
      <<65, 128>> \o Repeat(0, 14) \o Repeat(0, 16),
      <<255, 128>> \o Repeat(0, 14),
      <<192, 128, 128>> \o Repeat(0, 13),
      <<237, 160, 128, 128>> \o Repeat(0, 12),
      <<226, 130, 128>> \o Repeat(0, 13),
      <<128, 128>> \o Repeat(0, 14) }

\* the response of a device: the peer encrypts bytes of its own under the shared
\* key; no payload argument is involved, so the step is taken where it is empty
PeerEncrypt ==
    /\ pc = "init"
    /\ plain = <<>>
    /\ \E bytes \in PeerPlaintexts :
          /\ raw' = bytes
          /\ enc' = Return(b64encode(
                        iv_arg \o CbcEncrypt(KeyExpansion(encryption_key), iv_arg, bytes)))
    /\ pc' = "response"
    /\ UNCHANGED <<key_arg, encryption_key, plain, iv_arg, dec>>
    /\ UNCHANGED notCryptoVars

DecryptPayload ==
    /\ pc \in {"encrypt_payload", "response"}
    /\ enc.raised = ""
    /\ pc' = IF pc = "response" THEN "decrypt_response" ELSE "decrypt_payload"
    /\ dec' = decrypt_payload(encryption_key, enc.value)
    /\ UNCHANGED <<key_arg, encryption_key, plain, iv_arg, enc, raw>>
    /\ UNCHANGED notCryptoVars

NextCrypto == EncryptPayload \/ PeerEncrypt \/ DecryptPayload

SpecCrypto == InitCrypto /\ [][NextCrypto]_vars

---------------------------------------------------------------------------
(* The four classifying predicates, handed byte sequences of any length    *)

MaxFrameLen == 7

\* the values tried at an offset: at the marker and the group offset every value
\* a predicate compares with and some it does not, elsewhere two values
ClassifyBytes(offset) ==
    CASE offset = 1 -> {98, 123, 97, 2}
      [] offset = 5 -> 0..7 \cup {98}
      [] OTHER -> {252, 2}

\* the byte sequences of at most n bytes
RECURSIVE Candidates(_)
Candidates(n) ==
    IF n = 0 THEN {<<>>}
    ELSE LET shorter == Candidates(n - 1)
         IN  shorter \cup { Append(s, b) : s \in {t \in shorter : Len(t) = n - 1},
                                           b \in ClassifyBytes(n - 1) }

InitClassify ==
    /\ pc = "init"
    /\ candidate \in Candidates(MaxFrameLen)
    /\ classes = None
    /\ IdleChecksum /\ IdleDecode /\ IdleTemperature /\ IdleCommand /\ IdleParse
    /\ IdleCrypto /\ IdlePower

Classify ==
    /\ pc = "init"
    /\ classes' = [ general |-> is_general_states_payload(candidate),
                    sensor |-> is_sensor_states_payload(candidate),
                    error |-> is_error_states_payload(candidate),
                    energy |-> is_energy_states_payload(candidate) ]
    /\ pc' = "classify"
    /\ UNCHANGED <<candidate, notClassifyVars>>

NextClassify == Classify

SpecClassify == InitClassify /\ [][NextClassify]_vars

---------------------------------------------------------------------------
(* The constructor, handed keys of every length up to a bound              *)

MaxKeyLen == 18

\* keys of NUL bytes, of 0xff bytes and of two runs of different bytes
KeySamples ==
    UNION { { Repeat(0, n), Repeat(255, n), [i \in 1..n |-> i] \o <<>>,
              [i \in 1..n |-> (37 * i) % 256] \o <<>> } : n \in 0..MaxKeyLen }

InitKey ==
    /\ pc = "init"
    /\ key_arg \in KeySamples
    /\ encryption_key = <<>> /\ plain = <<>> /\ iv_arg = <<>>
    /\ enc = None /\ dec = None /\ raw = <<>>
    /\ IdleChecksum /\ IdleDecode /\ IdleTemperature /\ IdleCommand /\ IdleParse
    /\ IdleClassify /\ IdlePower

Construct ==
    /\ pc = "init"
    /\ encryption_key' = MitsubishiAPI_init(key_arg)
    /\ pc' = "__init__"
    /\ UNCHANGED <<key_arg, plain, iv_arg, enc, dec, raw, notCryptoVars>>

NextKey == Construct

SpecKey == InitKey /\ [][NextKey]_vars

---------------------------------------------------------------------------
(* The power estimate, handed every frequency byte, mode and fan speed     *)

InitPower ==
    /\ pc = "init"
    /\ frequency \in Byte
    /\ drive \in DriveModes
    /\ fan \in WindSpeeds
    /\ watts = 0
    /\ IdleChecksum /\ IdleDecode /\ IdleTemperature /\ IdleCommand /\ IdleParse
    /\ IdleCrypto /\ IdleClassify

EstimatePowerConsumption ==
    /\ pc = "init"
    /\ watts' = estimate_power_consumption(frequency, drive, fan)
    /\ pc' = "estimate_power_consumption"
    /\ UNCHANGED <<frequency, drive, fan, notPowerVars>>

NextPower == EstimatePowerConsumption

SpecPower == InitPower /\ [][NextPower]_vars

---------------------------------------------------------------------------
(* Claims on the checksum                                                  *)

\* C1: for every byte sequence p, also one longer than 20 bytes,
\* (sum(p) + calc_fcc(p)) mod 256 = 0.
C1_SumPlusFccIsZero ==
    pc = "calc_fcc" => (sum(payload) + fcc) % 256 = 0

\* C2: for every byte sequence p, calc_fcc(p) is a single byte (0..255), also
\* when the bytes of p sum to a multiple of 256.
C2_FccIsByte ==
    pc = "calc_fcc" => fcc \in Byte

---------------------------------------------------------------------------
(* Claims on the decoders                                                  *)

\* A frame is valid iff its last byte is the checksum of frame[1:-1]
ChecksumValid(f) ==
    Len(f) >= 2 /\ f[Len(f)] = calc_fcc(SubSeq(f, 2, Len(f) - 1)) % 256

\* g is f with exactly one byte changed, and that byte is not the trailing one
OneByteChanged(f, g) ==
    /\ Len(g) = Len(f)
    /\ Cardinality({i \in 1..Len(f) : f[i] # g[i]}) = 1
    /\ g[Len(f)] = f[Len(f)]

\* C4: every decoder fails with a checksum error, and returns no state, on a
\* checksum-valid frame in which one byte other than the trailing checksum byte
\* was changed.
C4_ChangedFrameRejected ==
    (pc \in DecoderOps /\ ChecksumValid(sent) /\ OneByteChanged(sent, received))
        => (result.raised = "ChecksumError" /\ result.value = None)

C7Frame ==
    <<252, 98, 1, 48, 16, 2, 0, 0, 1, 8, 8, 0, 0, 0, 0, 131, 174, 70, 0, 0, 0, 211>>

C7Decoded(temperature) ==
    /\ result.raised = ""
    /\ result.value.power_on_off = "ON"
    /\ result.value.drive_mode = "AUTO"
    /\ result.value.temperature = temperature
    /\ result.value.i_see_sensor = FALSE

\* C7 as stated: decoding fc620130100200000108080000000083ae46000000d3 yields power
\* ON, drive mode AUTO, temperature 22.0 and the intelligent-sensor flag unset.
C7_DecodesTo22 ==
    (pc = "GeneralStates.deserialize" /\ received = C7Frame) => C7Decoded(220)

\* C7 amended: decoding fc620130100200000108080000000083ae46000000d3 yields power
\* ON, drive mode AUTO, temperature 23.0 (the fine byte 0xae is (0xae - 0x80) * 0.5)
\* and the intelligent-sensor flag unset.
C7_DecodesTo23 ==
    (pc = "GeneralStates.deserialize" /\ received = C7Frame) => C7Decoded(230)

C7_Witness ==
    pc = "GeneralStates.deserialize" /\ received = C7Frame /\ result.raised = ""

\* the drive mode C8 gives for a mode byte, "" where it gives none
C8ModeOf(b) ==
    CASE b \in {0, 12} -> "DEHUM"
      [] b \in {3, 11} -> "COOLER"
      [] b \in {1, 9} -> "HEATER"
      [] b \in {2, 10} -> "DEHUM"
      [] b = 8 -> "AUTO"
      [] OTHER -> ""

\* C8: in the General decoder the mode byte (frame byte 9) decodes many-to-one: 0x00
\* and 0x0c give DEHUM, 0x03 and 0x0b COOLER, 0x01 and 0x09 HEATER, 0x02 and 0x0a
\* DEHUM, and 0x08 gives AUTO with the intelligent-sensor flag unset.
C8_ModeCollapse ==
    (pc = "GeneralStates.deserialize" /\ Len(received) >= 21 /\ C8ModeOf(received[10]) # "")
        => /\ result.raised = ""
           /\ result.value.drive_mode = C8ModeOf(received[10])
           /\ (received[10] = 8 => result.value.i_see_sensor = FALSE)

\* C9: for every Error-group frame of at least 11 bytes the abnormal-state flag is
\* false exactly when frame bytes 9 and 10 are 0x80 0x00, and the error code is
\* those two bytes in that order.
C9_ErrorSentinel ==
    (pc = "ErrorStates.deserialize" /\ Len(received) >= 11)
        => /\ result.raised = ""
           /\ result.value.is_abnormal_state = ~(received[10] = 128 /\ received[11] = 0)
           /\ Len(result.value.error_code) = 4
           /\ IntHex(result.value.error_code) = 256 * received[10] + received[11]

C9_Witness ==
    /\ pc = "ErrorStates.deserialize"
    /\ received[10] = 128 /\ received[11] = 0
    /\ result.raised = "" /\ result.value.is_abnormal_state = FALSE

---------------------------------------------------------------------------
(* Claims on the aggregator, the encoders and the temperature codec        *)

\* parse_code_values as C5 has it: a value whose decoder fails is skipped
RECURSIVE C5Skipping(_, _)
C5Skipping(state, values) ==
    IF values = <<>> THEN state
    ELSE LET r == parse_code_value(state, Head(values))
         IN  C5Skipping(IF r.raised # "" THEN state ELSE r.value, Tail(values))

\* C5: parse_code_values raises no exception for any list of frames: a frame whose
\* decoder fails is skipped, and every other frame of the list is still decoded
\* into the returned state.
C5_FailingFrameSkipped ==
    /\ pc # "raise"
    /\ exc = ""
    /\ pc = "return" => parsed = C5Skipping(ParsedDeviceState_default, code_values)

\* fc410130100100020008090000000000000000ac417d
C6Expected ==
    <<252, 65, 1, 48, 16, 1, 0, 2, 0, 8, 9, 0, 0, 0, 0, 0, 0, 0, 0, 172, 65, 125>>

\* C6: generate_general_command on a default-constructed GeneralStates with an
\* empty selection set returns exactly fc410130100100020008090000000000000000ac417d.
C6_DefaultCommand ==
    (pc = "generate_general_command" /\ state_arg = GeneralStates_default
        /\ DOMAIN controls_arg = {})
        => command = Return(hex(C6Expected))

\* C10: for every multiple t of 0.5 in -64.0 .. 63.5, from_segment of the fine byte
\* of t is t again, and that byte lies in 0 .. 255.
C10_FineRoundTrip ==
    (pc = "from_segment" /\ celsius >= -640 /\ celsius <= 635 /\ celsius % 5 = 0)
        => (decoded = celsius /\ fine_byte \in Byte)

C10_Witness ==
    pc = "from_segment" /\ celsius = -640 /\ fine_byte = 0 /\ decoded = -640

---------------------------------------------------------------------------
(* Claims on the envelope                                                  *)

\* C3: for every UTF-8 string s, every 16-byte key and every 16-byte iv,
\* decrypt_payload(encrypt_payload(s, iv)) returns exactly s, for plaintexts
\* shorter than, as long as and longer than a multiple of 16 bytes.
C3_RoundTrip ==
    pc = "decrypt_payload" => dec = Return(plain)

\* test_encrypt's 16 bytes of "A" under the default key and the zero iv: the
\* text of the test comes out, a second block of padding in it, and the
\* plaintext comes back
C3_Witness ==
    /\ pc = "decrypt_payload"
    /\ encryption_key = STATIC_KEY
    /\ iv_arg = Repeat(0, 16)
    /\ plain = Repeat(65, 16)
    /\ Len(encode_utf8(plain).value) % KEY_SIZE = 0
    /\ enc = Return(<<"A", "A", "A", "A", "A", "A", "A", "A", "A", "A", "A", "A", "A", "A", "A", "A",
                      "A", "A", "A", "A", "A", "C", "z", "l", "U", "7", "o", "b", "s", "l", "2", "k",
                      "J", "0", "Q", "7", "L", "u", "P", "E", "r", "L", "o", "g", "i", "P", "/", "E",
                      "9", "9", "w", "L", "W", "b", "w", "O", "v", "L", "S", "4", "8", "O", "H", "t">>)
    /\ dec = Return(plain)

---------------------------------------------------------------------------
(* Claims on the fields of the General decoder                             *)

\* C11: for every integer t in 16..31, a General frame whose fine-temperature byte
\* (frame byte 16) is 0x00 and whose coarse byte (frame byte 10) is 31 - t decodes
\* to temperature t: without a fine byte the decoder falls back to 31 - b.
C11_CoarseFallback ==
    (/\ pc = "GeneralStates.deserialize"
     /\ Len(received) >= 21
     /\ received[17] = 0
     /\ received[11] \in 0..15)
        => /\ result.raised = ""
           /\ result.value.temperature = 10 * (31 - received[11])

---------------------------------------------------------------------------
(* Claims on the range of the encoded temperature                          *)

\* C12: generate_general_command fails with a range error and returns no frame
\* whenever the state's temperature is below 16 or above 31; for a temperature
\* inside 16..31 it never fails, whatever the other fields and the selection set.
C12_RangeError ==
    pc = "generate_general_command"
        => IF state_arg.temperature < 160 \/ state_arg.temperature > 310
           THEN command.raised = "RangeError" /\ command.value = None
           ELSE command.raised = ""

---------------------------------------------------------------------------
(* Claims on the slots of the aggregate                                    *)

\* the slots C14 gives for a list of frames: each the decoding of the last frame of
\* its group among the frames of at least 10 bytes, the energy frame decoded with
\* the general slot as the frames before it leave it
C14Slots(values) ==
    LET Last(S) == IF S = {} THEN 0 ELSE CHOOSE i \in S : \A j \in S : j <= i
        Counted(n) == {i \in 1..n : Len(values[i]) >= 10}
        GeneralBefore(n) == Last({i \in Counted(n) : is_general_states_payload(values[i])})
        GeneralAt(n) ==
            IF GeneralBefore(n) = 0 THEN None
            ELSE GeneralStates_deserialize(values[GeneralBefore(n)]).value
        s == Last({i \in Counted(Len(values)) : is_sensor_states_payload(values[i])})
        r == Last({i \in Counted(Len(values)) : is_error_states_payload(values[i])})
        e == Last({i \in Counted(Len(values)) : is_energy_states_payload(values[i])})
    IN  [ general |-> GeneralAt(Len(values)),
          sensors |-> IF s = 0 THEN None ELSE SensorStates_deserialize(values[s]).value,
          errors |-> IF r = 0 THEN None ELSE ErrorStates_deserialize(values[r]).value,
          energy |-> IF e = 0 THEN None
                     ELSE EnergyStates_deserialize(values[e], GeneralAt(e - 1)).value ]

\* C14: after parse_code_values has processed a list of decodable frames, each slot
\* holds the decoding of the last frame of the list classified into its group and
\* is absent exactly when the list has no frame of that group; frames shorter than
\* 10 bytes and frames of no group change no slot.
C14_LastFrameWins ==
    pc = "return" => parsed = C14Slots(code_values)

\* two different General frames and an unclassified one: the second General frame
\* fills the slot, the other slots stay absent
C14_Witness ==
    /\ pc = "return"
    /\ Len(code_values) = 3
    /\ is_general_states_payload(code_values[1])
    /\ is_general_states_payload(code_values[2])
    /\ GeneralStates_deserialize(code_values[1]) # GeneralStates_deserialize(code_values[2])
    /\ code_values[3] = <<255, 255, 255, 255, 255, 255, 255, 255, 255, 255, 2, 2, 0, 128, 0>>
    /\ parsed.general = GeneralStates_deserialize(code_values[2]).value
    /\ parsed.sensors = None /\ parsed.errors = None /\ parsed.energy = None

---------------------------------------------------------------------------
(* Claims on generate_extend08_command                                     *)

\* C15: generate_extend08_command on a default-constructed GeneralStates with an
\* empty selection set returns exactly fc410130100800000000000000000000000000000076.
C15_DefaultExtend08 ==
    (pc = "generate_extend08_command" /\ state_arg = GeneralStates_default
        /\ DOMAIN controls_arg = {})
        => command = Return(hex(<<252, 65, 1, 48, 16, 8>> \o [i \in 1..15 |-> 0] \o <<118>>))

C15_Witness ==
    /\ pc = "generate_extend08_command"
    /\ state_arg = GeneralStates_default
    /\ controls_arg = <<>>
    /\ command.raised = ""
    /\ Len(command.value) = 44

\* C18: in the frame built by generate_extend08_command every field that is not in
\* the selection set is 0x00: the dehumidify byte (frame byte 9) without 'dehum',
\* the power-saving byte (10) without 'power_saving', the wind-break byte (11)
\* without 'wind_and_wind_break' and the buzzer byte (12) without 'buzzer',
\* whatever the state holds.
C18_UnselectedZero ==
    (pc = "generate_extend08_command" /\ command.raised = "")
        => LET frame == fromhex(command.value).value
               Unselected(k) == ~get(controls_arg, k, FALSE)
           IN  /\ Unselected("dehum") => frame[10] = 0
               /\ Unselected("power_saving") => frame[11] = 0
               /\ Unselected("wind_and_wind_break") => frame[12] = 0
               /\ Unselected("buzzer") => frame[13] = 0

---------------------------------------------------------------------------
(* Claims on the fan speed and the wide vane of the General decoder        *)

\* C16: for every General frame whose fan-speed byte (frame byte 11) is b in
\* {0, 1, 2, 3, 5, 6}, the decoded fan speed is the level whose ordinal is b; byte 6
\* decodes to a level of its own, not to AUTO.
C16_FanSpeedLevels ==
    (/\ pc = "GeneralStates.deserialize"
     /\ Len(received) = 22
     /\ is_general_states_payload(received)
     /\ received[12] \in {0, 1, 2, 3, 5, 6})
        => /\ result.raised = ""
           /\ \E w \in WindSpeeds :
                 /\ WindSpeed_value(w) = received[12]
                 /\ result.value.wind_speed = w

\* the member C17 gives for the low nibble of the wide-vane byte
C17Vane(nibble) ==
    CASE nibble = 0 -> "AUTO"
      [] nibble = 1 -> "L"
      [] nibble = 2 -> "LS"
      [] nibble = 3 -> "C"
      [] nibble = 4 -> "RS"
      [] nibble = 5 -> "R"
      [] nibble = 6 -> "LC"
      [] nibble = 7 -> "CR"
      [] nibble = 8 -> "LR"
      [] nibble = 9 -> "LCR"
      [] nibble = 12 -> "LCR_S"
      [] nibble \in {10, 11, 13, 14, 15} -> "AUTO"

\* C17: for every value w in 0..255 of the wide-vane byte (frame byte 15) of a
\* General frame, the decoded horizontal vane is the member whose value is
\* w AND 0x0F when that is one of 0..9 or 12 and AUTO for the low nibbles 10, 11,
\* 13, 14, 15; the adjustment flag is true exactly when w AND 0xF0 is 0x80.
C17_WideVane ==
    (/\ pc = "GeneralStates.deserialize"
     /\ Len(received) = 22
     /\ is_general_states_payload(received))
        => /\ result.raised = ""
           /\ result.value.horizontal_wind_direction = C17Vane(received[16] % 16)
           /\ result.value.wide_vane_adjustment = (received[16] \div 16 = 8)

C17_Witness ==
    /\ pc = "GeneralStates.deserialize"
    /\ Len(received) = 22
    /\ received[16] = 140
    /\ result.raised = ""
    /\ result.value.horizontal_wind_direction = "LCR_S"
    /\ result.value.wide_vane_adjustment

---------------------------------------------------------------------------
(* Claims on the classification of frames                                  *)

\* C19: classification is total and exclusive: for every byte sequence each of the
\* four is_*_states_payload predicates returns a boolean and at most one returns
\* true; all four are false when the sequence is shorter than 6 bytes, when byte 1
\* is neither 0x62 nor 0x7b, or when byte 5 is not one of 0x02, 0x03, 0x04, 0x06;
\* the markers 0x62 and 0x7b give the same class.
C19_Classification ==
    pc = "classify"
        => /\ classes \in [{"general", "sensor", "error", "energy"} -> BOOLEAN]
           /\ Cardinality({k \in DOMAIN classes : classes[k]}) <= 1
           /\ (\/ Len(candidate) < 6
               \/ candidate[2] \notin {98, 123}
               \/ candidate[6] \notin {2, 3, 4, 6})
                 => \A k \in DOMAIN classes : ~classes[k]
           /\ (Len(candidate) >= 2 /\ candidate[2] \in {98, 123})
                 => \A marker \in {98, 123} :
                       LET other == [candidate EXCEPT ![2] = marker]
                       IN  /\ classes.general = is_general_states_payload(other)
                           /\ classes.sensor = is_sensor_states_payload(other)
                           /\ classes.error = is_error_states_payload(other)
                           /\ classes.energy = is_energy_states_payload(other)

C19_Witness ==
    /\ pc = "classify"
    /\ Len(candidate) = 6
    /\ candidate[2] = 123
    /\ candidate[6] = 4
    /\ classes.error
    /\ ~classes.general /\ ~classes.sensor /\ ~classes.energy

---------------------------------------------------------------------------
(* Claims on malformed envelopes                                           *)

\* the final block is an ISO 7816-4 padding: a 0x80 marker followed only by zero
\* bytes up to the block end
C20ValidPadding(bytes) ==
    LET n == Len(bytes)
    IN  /\ n >= 16
        /\ \E k \in (n - 15)..n :
              bytes[k] = 128 /\ \A j \in (k + 1)..n : bytes[j] = 0

\* the bytes in front of the last marker
C20Unpadded(bytes) ==
    LET k == CHOOSE i \in 1..Len(bytes) :
                 bytes[i] = 128 /\ \A j \in (i + 1)..Len(bytes) : bytes[j] # 128
    IN  SubSeq(bytes, 1, k - 1)

\* byte sequences that are no UTF-8: a byte that never occurs, an overlong form,
\* a surrogate, a sequence cut short, a continuation byte alone
C20InvalidUtf8 == {<<255>>, <<192, 128>>, <<237, 160, 128>>, <<226, 130>>, <<128>>}

\* C20: decrypt_payload fails with an error, and returns no plaintext, for every
\* envelope whose decrypted final block is not a valid ISO 7816-4 padding and for
\* every envelope whose unpadded bytes are not valid UTF-8.
C20_MalformedEnvelope ==
    (/\ pc = "decrypt_response"
     /\ \/ ~C20ValidPadding(raw)
        \/ C20Unpadded(raw) \in C20InvalidUtf8)
        => dec.raised # "" /\ dec.value = None

C20_Witness ==
    /\ pc = "decrypt_response"
    /\ raw = <<65, 128>> \o Repeat(0, 13) \o <<1>>
    /\ ~C20ValidPadding(raw)
    /\ dec = Raise("ValueError")

---------------------------------------------------------------------------
(* Claims on the context of the Energy decoder                             *)

\* the estimate C21 gives for the energy slot after the first n values: that of
\* the last Energy frame among them, computed from the drive mode and the fan
\* speed of the last General frame in front of it, absent when there is none
C21Estimate(values, n) ==
    LET Last(S) == IF S = {} THEN 0 ELSE CHOOSE i \in S : \A j \in S : j <= i
        Decoded(k) == {i \in 1..k : Len(values[i]) >= 10}
        e == Last({i \in Decoded(n) : is_energy_states_payload(values[i])})
        g == Last({i \in Decoded(e - 1) : is_general_states_payload(values[i])})
        general == GeneralStates_deserialize(values[g]).value
    IN  IF g = 0 THEN None
        ELSE Some(estimate_power_consumption(
                      values[e][10], general.drive_mode, general.wind_speed))

\* C21: in parse_code_values the energy slot carries an estimated power exactly
\* when a General frame was decoded earlier in the list than the Energy frame that
\* filled the slot; the estimate uses the drive mode and the fan speed of the most
\* recent General frame before that Energy frame, and a General frame later in the
\* list does not change the estimate stored.
C21_EnergyContext ==
    (pc \in {"loop", "return"} /\ parsed.energy # None)
        => parsed.energy.estimated_power_watts = C21Estimate(code_values, position)

\* a General frame in COOLER, an Energy frame of a running compressor, a General
\* frame in FAN: the estimate stays that of COOLER
C21_Witness ==
    /\ pc = "return"
    /\ Len(code_values) = 3
    /\ is_general_states_payload(code_values[1])
    /\ is_energy_states_payload(code_values[2])
    /\ Len(code_values[2]) = 22
    /\ code_values[2][10] = 64
    /\ is_general_states_payload(code_values[3])
    /\ parsed.general # None
    /\ parsed.general.drive_mode = "FAN"
    /\ parsed.energy # None
    /\ parsed.energy.estimated_power_watts
          = Some(estimate_power_consumption(64, "COOLER", "AUTO"))
    /\ parsed.energy.estimated_power_watts
          # Some(estimate_power_consumption(64, "FAN", "AUTO"))

---------------------------------------------------------------------------
(* Claims on the frames of the command encoders                            *)

\* C22: every frame returned by generate_general_command (temperature in 16..31)
\* and by generate_extend08_command (dehumidify setting and wind-break byte in
\* 0..255, any selection set) is 44 hex digits, that is 22 bytes, begins with
\* fc 41 01 30 10, and its last byte is the checksum of the bytes 1..20, so that
\* the bytes 1..21 sum to 0 modulo 256.
C22_FrameShape ==
    (\/ pc = "generate_general_command" /\ state_arg.temperature \in 160..310
     \/ pc = "generate_extend08_command")
        => /\ command.raised = ""
           /\ Len(command.value) = 44
           /\ LET frame == fromhex(command.value)
              IN  /\ frame.raised = ""
                  /\ Len(frame.value) = 22
                  /\ SubSeq(frame.value, 1, 5) = <<252, 65, 1, 48, 16>>
                  /\ sum(SubSeq(frame.value, 2, 22)) % 256 = 0

---------------------------------------------------------------------------
(* Claims on the flag bytes of generate_general_command                    *)

\* the value of a flag byte: the OR, here the sum, of the masks of the selected keys
C23Flags(masks, selected) ==
    LET RECURSIVE Total(_)
        Total(keys) ==
            IF keys = {} THEN 0
            ELSE LET k == CHOOSE x \in keys : TRUE
                 IN  (IF k \in selected THEN masks[k] ELSE 0) + Total(keys \ {k})
    IN  Total(DOMAIN masks)

\* C23: in generate_general_command the two flag bytes (frame bytes 6 and 7) depend
\* on the selection set only: byte 6 is the OR of 0x01 power, 0x02 mode, 0x04
\* temperature, 0x08 fan speed, 0x10 vertical vane, byte 7 is the OR of 0x01
\* horizontal vane and 0x02 outside-control (set when the key is absent); every
\* other byte except the checksum depends on the state only, so two commands built
\* from the same state with different selection sets differ in bytes 6, 7 and the
\* checksum and nowhere else.
C23_FlagBytes ==
    pc = "generate_general_command"
        => LET selected ==
                   {k \in DOMAIN controls_arg : controls_arg[k]}
                   \cup ({"outside_control"} \ DOMAIN controls_arg)
               byte6 == C23Flags([power_on_off |-> 1, drive_mode |-> 2, temperature |-> 4,
                                  wind_speed |-> 8, up_down_wind_direct |-> 16], selected)
               byte7 == C23Flags([left_right_wind_direct |-> 1, outside_control |-> 2],
                                 selected)
               unselected == generate_general_command(state_arg, [k \in {"outside_control"} |-> FALSE])
           IN  /\ command.raised = ""
               /\ unselected.raised = ""
               /\ Slice(command.value, 12, 14) = Format02x(byte6)
               /\ Slice(command.value, 14, 16) = Format02x(byte7)
               /\ Slice(unselected.value, 12, 16) = <<"0", "0", "0", "0">>
               /\ Slice(command.value, 0, 12) = Slice(unselected.value, 0, 12)
               /\ Slice(command.value, 16, 42) = Slice(unselected.value, 16, 42)

\* temperature and horizontal vane selected, outside_control absent: flags 04 03
C23_Witness ==
    /\ pc = "generate_general_command"
    /\ DOMAIN controls_arg = {"temperature", "left_right_wind_direct"}
    /\ state_arg.drive_mode = "COOLER"
    /\ command.raised = ""
    /\ Slice(command.value, 12, 16) = <<"0", "4", "0", "3">>

---------------------------------------------------------------------------
(* Claims on the mode byte of the General decoder                          *)

\* C24: for every mode byte b in 0..255 (frame byte 9) the General decoder reports
\* the intelligent-sensor flag set exactly when bit 0x08 of b is set; when the flag
\* is set the drive mode is looked up from b - 0x08, otherwise from b, and the raw
\* mode value reported for diagnostics is b unchanged.
C24_ISeeFlag ==
    (/\ pc = "GeneralStates.deserialize"
     /\ Len(received) = 22
     /\ is_general_states_payload(received))
        => LET b == received[10]
               flag == BitAnd(b, 8) # 0
           IN  /\ result.raised = ""
               /\ result.value.i_see_sensor = flag
               /\ result.value.drive_mode
                     = DriveMode_from_segment(IF flag THEN b - 8 ELSE b)
               /\ result.value.mode_raw_value = b

---------------------------------------------------------------------------
(* Claims on the lengths the decoders accept                               *)

\* the minimum C25 gives for the frames of each decoder
C25Minimum(decoder) ==
    CASE decoder = "GeneralStates.deserialize" -> 21
      [] decoder = "SensorStates.deserialize" -> 21
      [] decoder = "EnergyStates.deserialize" -> 12
      [] decoder = "ErrorStates.deserialize" -> 11

\* C25: each decoder rejects with an error, before it reads any field, every frame
\* shorter than the minimum of its group (General 21 bytes, Sensor 21, Energy 12,
\* Error 11), and for every frame at or above that minimum it reads only offsets
\* inside the frame, so no index or parse error occurs.
C25_MinimumLength ==
    pc \in DecoderOps
        => IF Len(received) < C25Minimum(pc)
           THEN result = Raise("ValueError")
           ELSE result.raised = "" /\ result.value # None

\* an Energy frame cut to 11 bytes, one below its minimum
C25_Witness ==
    /\ pc = "EnergyStates.deserialize"
    /\ Len(received) = 11
    /\ received = SubSeq(sent, 1, 11)
    /\ result = Raise("ValueError")

---------------------------------------------------------------------------
(* Claims on the bytes the General decoder does not know                   *)

\* C26: GeneralStates.deserialize returns a state, and never raises, for every
\* frame of at least 21 bytes whatever its byte values are: an unknown mode byte,
\* fan-speed byte, vane byte or a non-zero byte in a normally unused position is
\* mapped to a default or recorded in the diagnostics field, never turned into an
\* error.
C26_NeverRaises ==
    (pc = "GeneralStates.deserialize" /\ Len(received) >= 21)
        => /\ result.raised = ""
           /\ LET state == result.value
                  flags == state.undocumented_flags
              IN  /\ state.drive_mode \in DriveModes
                  /\ state.wind_speed \in WindSpeeds
                  /\ state.vertical_wind_direction_right \in VerticalWindDirections
                  /\ state.vertical_wind_direction_left \in VerticalWindDirections
                  /\ state.horizontal_wind_direction \in HorizontalWindDirections
                  /\ received[12] \notin {0, 1, 2, 3, 5} => state.wind_speed = "AUTO"
                  /\ received[13] \notin {0, 1, 2, 3, 4, 5, 7}
                        => state.vertical_wind_direction_right = "AUTO"
                  /\ received[16] % 16 \in {10, 11, 13, 14, 15}
                        => state.horizontal_wind_direction = "AUTO"
                  /\ received[10] \notin {0, 1, 2, 3, 7, 8, 9, 10, 11, 12, 25, 27}
                        => /\ flags # None
                           /\ \E i \in 1..Len(flags.suspicious_patterns) :
                                 /\ flags.suspicious_patterns[i].position = 9
                                 /\ flags.suspicious_patterns[i].value = received[10]
                  /\ \A pos \in {12, 17, 19} :
                        received[pos + 1] # 0
                            => /\ flags # None
                               /\ pos \in DOMAIN flags.unknown_segments
                               /\ flags.unknown_segments[pos].value = received[pos + 1]

\* a recorded frame whose mode byte arrives as 0xff
C26_Witness ==
    /\ pc = "GeneralStates.deserialize"
    /\ Len(received) = 22
    /\ received[10] = 255
    /\ result.raised = ""
    /\ result.value.drive_mode = "FAN"
    /\ result.value.undocumented_flags # None
    /\ Len(result.value.undocumented_flags.suspicious_patterns) = 1

---------------------------------------------------------------------------
(* Claims on the temperature bytes of generate_general_command             *)

\* C27: for every integer temperature t in 16..31 the frame built by
\* generate_general_command carries the coarse byte 31 - t at frame byte 10 and the
\* fine byte 0x80 + 2*t at frame byte 19; for a half-degree temperature t + 0.5 in
\* that range the coarse byte is 0x10 + (31 - t) and the fine byte 0x80 + 2*t + 1.
C27_TemperatureBytes ==
    (/\ pc = "generate_general_command"
     /\ state_arg.temperature \in 160..310
     /\ state_arg.temperature % 5 = 0)
        => LET t == state_arg.temperature \div 10
               half == state_arg.temperature % 10 = 5
               coarse == IF half THEN 16 + (31 - t) ELSE 31 - t
               fine == IF half THEN 128 + 2 * t + 1 ELSE 128 + 2 * t
           IN  /\ command.raised = ""
               /\ Slice(command.value, 20, 22) = Format02x(coarse)
               /\ Slice(command.value, 38, 40) = Format02x(fine)

\* 22.5 degrees: coarse byte 0x19, fine byte 0xad
C27_Witness ==
    /\ pc = "generate_general_command"
    /\ state_arg.temperature = 225
    /\ command.raised = ""
    /\ Slice(command.value, 20, 22) = <<"1", "9">>
    /\ Slice(command.value, 38, 40) = <<"a", "d">>

---------------------------------------------------------------------------
(* Claims on the power estimate                                            *)

\* the base and the fan watts C28 lists
C28Base ==
    [ COOLER |-> 1200, HEATER |-> 1000, AUTO |-> 1100, DEHUM |-> 800, FAN |-> 50,
      AUTO_COOLER |-> 1200, AUTO_HEATER |-> 1000 ]

C28Fan == [AUTO |-> 50, LEVEL_1 |-> 30, LEVEL_2 |-> 60, LEVEL_3 |-> 90, LEVEL_FULL |-> 120]

\* C28: estimate_power_consumption returns exactly 10.0 for compressor frequency 0
\* whatever the mode and fan speed; for every frequency f in 1..255 it returns
\* base(mode) * f / 255 + fan(speed) + 20 rounded to one decimal; the result is
\* never below the 10.0 W standby value and never decreases when f grows with mode
\* and fan speed fixed.  With w the result in tenths, w is the rounding of x to one
\* decimal when |w / 10 - x| <= 0.05, taken here times 2 * 255 * 10.
C28_PowerEstimate ==
    pc = "estimate_power_consumption"
        => LET exact255 == 10 * C28Base[drive] * frequency + 255 * 10 * (C28Fan[fan] + 20)
               diff == 255 * watts - exact255
           IN  /\ frequency = 0 => watts = 100
               /\ frequency \in 1..255 => 2 * diff <= 255 /\ 2 * diff >= -255
               /\ watts >= 100
               /\ frequency > 0
                     => watts >= estimate_power_consumption(frequency - 1, drive, fan)

\* COOLER at full frequency with the fan at LEVEL_FULL: 1200 + 120 + 20 W
C28_Witness ==
    /\ pc = "estimate_power_consumption"
    /\ frequency = 255
    /\ drive = "COOLER"
    /\ fan = "LEVEL_FULL"
    /\ watts = 13400

---------------------------------------------------------------------------
(* Claims on the stored key                                                *)

\* C29: after MitsubishiAPI is constructed with a key of any length (0 bytes
\* included), the stored encryption key is exactly 16 bytes: a key shorter than 16
\* bytes is the given bytes followed by zero bytes, a key longer than 16 bytes is
\* its first 16 bytes, and a 16-byte key is kept unchanged.
C29_StoredKey ==
    pc = "__init__"
        => /\ Len(encryption_key) = 16
           /\ \A i \in 1..16 :
                 encryption_key[i] = IF i <= Len(key_arg) THEN key_arg[i] ELSE 0
           /\ Len(key_arg) = 16 => encryption_key = key_arg

\* a key of 18 bytes: the last two are dropped
C29_Witness ==
    /\ pc = "__init__"
    /\ Len(key_arg) = 18
    /\ key_arg[17] = 17
    /\ encryption_key = SubSeq(key_arg, 1, 16)

---------------------------------------------------------------------------
(* Claims on the round trip of the drive mode                              *)

\* C30: drive mode survives an encode/decode round trip: for every DriveMode m
\* (AUTO, HEATER, DEHUM, COOLER, FAN, AUTO_COOLER, AUTO_HEATER), feeding the mode
\* byte that generate_general_command writes for m (frame byte 9) to the General
\* decoder's mode parsing yields m again.
C30_ModeRoundTrip ==
    pc = "parse_mode_with_i_see" => mode_parsed.drive_mode = state_arg.drive_mode

===========================================================================
